---- MODULE Spec2Model ----
(***************************************************************************)
(* Model of the clx.xms client library: the paging engine (api.Pages,      *)
(* api.PagesIterator), the serializers of create and update objects        *)
(* (serialize.py), the deserializers of the server's documents             *)
(* (deserialize.py) and the client operations that build URLs, issue HTTP  *)
(* requests and check the responses (client.py).                           *)
(***************************************************************************)
EXTENDS Integers, Sequences, FiniteSets, TLC

VARIABLES
    server,     \* the listing the XMS server holds: page index -> wire page
    pages,      \* the api.Pages object returned by fetch_*: "none" or its kind
    iters,      \* iterator id -> PagesIterator object (<<>> while not created)
    nCalls,     \* number of invocations of the Pages worker (fetcher closure)
    lastCall,   \* argument of the latest worker invocation (-1: none yet)
    requests,   \* HTTP requests issued through the session, oldest first
    nGets,      \* number of direct Pages.get calls made by the caller
    got,        \* value returned by the latest direct Pages.get (<<>>: none)
    lastOp,     \* the latest operation performed and how it ended
    obj,        \* the create or update object handed to the serializer
    fields,     \* the outcome of the latest serializer call
    response,   \* the latest HTTP response the session returned
    result,     \* what the latest operation or deserializer call ended in
    nOps        \* number of client operations invoked so far

vars == <<server, pages, iters, nCalls, lastCall, requests, nGets, got,
          lastOp, obj, fields, response, result, nOps>>

----------------------------------------------------------------------------
(* Bounds *)

\* highest page index the server answers for
MaxPage == 2
\* number of direct Pages.get calls explored
MaxGets == 2
\* number of client operations explored in one behaviour
MaxOps == 1

PageIdx == 0..MaxPage
PageSizes == {0, 1, 2}
TotalSizes == {1, 3}
IterIds == {1, 2}

----------------------------------------------------------------------------
(* api.Page and the page deserializers *)

\* A wire page as the server sends it; 'content' identifies the element list.
WirePages(i) ==
    [page : {i, i + 1}, page_size : PageSizes, count : TotalSizes,
     content : {i}]

\* deserialize.batches_page / groups_page / inbounds_page: the Page fields
\* are copied from the wire fields 'page', 'page_size' and 'count'.
PageFromWire(w) ==
    [page |-> w.page, content |-> w.content, size |-> w.page_size,
     total_size |-> w.count]

\* Client._url: self._endpoint + '/v1/' + self._service_plan_id, the part
\* every URL of one client starts with.
UrlPrefix == "{endpoint}/v1/{service_plan_id}"

\* A request without a JSON body (GET, DELETE).
NoBody == [tag |-> "None"]

\* The initial operation record.
NoOp == [op |-> "init", arg |-> -1, out |-> "none"]

\* PagesIterator.__init__
NewIterator ==
    [cur_page |-> <<>>, position |-> 0,
     calls |-> <<>>, yielded |-> <<>>, stops |-> 0, nexts |-> 0]

----------------------------------------------------------------------------
(* The paged listings: Client.fetch_batches / fetch_groups / fetch_inbounds *)

\* A GET request for one page of a listing, as the fetcher closure builds it:
\* params = {'page': page}, self._get(self._url('/<kind>?' + query)).
PageRequest(kind, p) ==
    [method |-> "GET", url |-> <<UrlPrefix, "/" \o kind>>,
     query |-> [page |-> p], body |-> NoBody]

\* A fetch_* that downloads the first page as soon as it is called.
ListingRequests_eager(kind) ==
    <<[method |-> "GET", url |-> <<UrlPrefix, "/" \o kind>>,
       query |-> [page |-> 0], body |-> NoBody]>>

\* The requests Client.fetch_batches/fetch_groups/fetch_inbounds issue when
\* called: none, they only wrap the fetcher closure in api.Pages.
ListingRequests(kind) == <<>>

\* The requests one invocation of the fetcher closure issues.
FetcherRequests(kind, p) == <<PageRequest(kind, p)>>

\* The page the fetcher closure returns: the deserialized server response.
Fetcher(p) == PageFromWire(server[p])

\* A Pages.get that keeps the page it returned last and hands it out again
\* when asked for the same index.
PagesGet_cached(p) ==
    IF got # <<>> /\ lastCall = p
    THEN [result |-> got[1],
          calls |-> <<>>]
    ELSE [result |-> Fetcher(p),
          calls |-> <<p>>]

\* Pages.get(page): return self._worker(page).  'calls' lists the worker
\* invocations made, 'result' is the value returned.
PagesGet(p) == [result |-> Fetcher(p),
                calls |-> <<p>>]

\* The effect of the worker invocations 'calls' on the call and request logs.
RECURSIVE RequestsOf(_, _)
RequestsOf(kind, calls) ==
    IF calls = <<>> THEN <<>>
    ELSE FetcherRequests(kind, Head(calls)) \o RequestsOf(kind, Tail(calls))

WorkerEffect(calls) ==
    /\ nCalls' = nCalls + Len(calls)
    /\ lastCall' = IF calls = <<>> THEN lastCall ELSE calls[Len(calls)]
    /\ requests' = requests \o RequestsOf(pages, calls)

\* Client.fetch_batches, fetch_groups, fetch_inbounds
FetchListing(kind) ==
    /\ pages = "none"
    /\ pages' = kind
    /\ requests' = requests \o ListingRequests(kind)
    /\ lastOp' = [op |-> "fetch_" \o kind, arg |-> -1, out |-> "Pages"]
    /\ UNCHANGED <<server, iters, nCalls, lastCall, nGets, got, obj, fields,
                   response, result, nOps>>

fetch_batches == FetchListing("batches")

fetch_groups == FetchListing("groups")

fetch_inbounds == FetchListing("inbounds")

\* A direct call of Pages.get(p) by the caller.
Get(p) ==
    /\ pages # "none"
    /\ nGets < MaxGets
    /\ LET r == PagesGet(p)
       IN /\ WorkerEffect(r.calls)
          /\ got' = <<r.result>>
    /\ nGets' = nGets + 1
    /\ lastOp' = [op |-> "get", arg |-> p, out |-> "page"]
    /\ UNCHANGED <<server, pages, iters, obj, fields, response, result, nOps>>

\* Pages.__iter__: a new PagesIterator
Iter(i) ==
    /\ pages # "none"
    /\ iters[i] = <<>>
    /\ iters' = [iters EXCEPT ![i] = <<NewIterator>>]
    /\ lastOp' = [op |-> "iter", arg |-> i, out |-> "iterator"]
    /\ UNCHANGED <<server, pages, nCalls, lastCall, requests, nGets, got,
                   obj, fields, response, result, nOps>>

\* PagesIterator.__next__, line 1166: whether the page is fetched
NeedsFetch(it) ==
    \/ it.cur_page = <<>>
    \/ it.cur_page[1].page # it.position

RECURSIVE SumSizes(_)
\* Number of elements on the pages of a sequence of pages.
SumSizes(ps) == IF ps = <<>> THEN 0 ELSE Head(ps).size + SumSizes(Tail(ps))

\* An iterator that never treats a page of size 0 as the end.
IterationOver_negative(it, page) == page.size < 0

\* An iterator that also stops once total_size elements have been yielded.
IterationOver_total(it, page) ==
    page.size <= 0 \/ SumSizes(it.yielded) >= page.total_size

\* PagesIterator.__next__, line 1172: whether the iteration is over
IterationOver(it, page) == page.size <= 0

\* A __next__ of iterators that keep their page and position in the Pages
\* object they were made from, where every iterator sees them.
NextStep_shared(i) ==
    /\ iters[i] # <<>>
    /\ iters[i][1].position <= MaxPage
    /\ LET it == iters[i][1]
           fetch == NeedsFetch(it)
           r == PagesGet(it.position)
           cur == IF fetch THEN r.result ELSE it.cur_page[1]
           over == IterationOver(it, cur)
       IN /\ WorkerEffect(IF fetch THEN r.calls ELSE <<>>)
          /\ iters' = [j \in DOMAIN iters |->
                 IF iters[j] = <<>> THEN <<>>
                 ELSE <<[cur_page |-> <<cur>>,
                         position |-> it.position + 1,
                         calls |-> IF j = i /\ fetch
                                   THEN iters[j][1].calls \o r.calls
                                   ELSE iters[j][1].calls,
                         yielded |-> IF j = i /\ ~over
                                     THEN Append(iters[j][1].yielded, cur)
                                     ELSE iters[j][1].yielded,
                         stops |-> IF j = i /\ over
                                   THEN iters[j][1].stops + 1
                                   ELSE iters[j][1].stops,
                         nexts |-> IF j = i THEN iters[j][1].nexts + 1
                                   ELSE iters[j][1].nexts]>>]
          /\ lastOp' = [op |-> "next", arg |-> i,
                        out |-> IF over THEN "StopIteration" ELSE "page"]
    /\ UNCHANGED <<server, pages, nGets, got, obj, fields, response, result, nOps>>

\* PagesIterator.__next__
NextStep(i) ==
    /\ iters[i] # <<>>
    /\ iters[i][1].position <= MaxPage
    /\ LET it == iters[i][1]
           fetch == NeedsFetch(it)
           r == PagesGet(it.position)
           cur == IF fetch THEN r.result ELSE it.cur_page[1]
           over == IterationOver(it, cur)
       IN /\ WorkerEffect(IF fetch THEN r.calls ELSE <<>>)
          /\ iters' = [iters EXCEPT ![i] = <<
                 [cur_page |-> <<cur>>,
                  position |-> it.position + 1,
                  calls |-> IF fetch THEN it.calls \o r.calls ELSE it.calls,
                  yielded |-> IF over THEN it.yielded
                              ELSE Append(it.yielded, cur),
                  stops |-> IF over THEN it.stops + 1 ELSE it.stops,
                  nexts |-> it.nexts + 1] >>]
          /\ lastOp' = [op |-> "next", arg |-> i,
                        out |-> IF over THEN "StopIteration" ELSE "page"]
    /\ UNCHANGED <<server, pages, nGets, got, obj, fields, response, result, nOps>>

NoObj == [kind |-> "none"]

NoFields == [out |-> "none", map |-> <<>>]

\* No response received yet / nothing returned or raised yet
NoResponse == [status |-> 0, text |-> "", json |-> [tag |-> "None"]]

NoResult == [out |-> "none", value |-> NoObj]

InitPaging ==
    /\ server \in [PageIdx -> UNION {WirePages(i) : i \in PageIdx}]
    /\ \A i \in PageIdx : server[i] \in WirePages(i)
    /\ \A i, j \in PageIdx : server[i].count = server[j].count
    /\ pages = "none"
    /\ iters = [i \in IterIds |-> <<>>]
    /\ nCalls = 0
    /\ lastCall = -1
    /\ requests = <<>>
    /\ nGets = 0
    /\ got = <<>>
    /\ response = NoResponse
    /\ result = NoResult
    /\ nOps = 0
    /\ lastOp = NoOp
    /\ obj = NoObj
    /\ fields = NoFields

NextPaging ==
    \/ fetch_batches
    \/ fetch_groups
    \/ fetch_inbounds
    \/ \E p \in PageIdx : Get(p)
    \/ Iter(1)
    \/ NextStep(1)

SpecPaging == InitPaging /\ [][NextPaging]_vars

----------------------------------------------------------------------------
(* Properties of the paging engine *)

Min(a, b) == IF a < b THEN a ELSE b

\* Pages 0..n of the server report their own index, pages 0..n-1 are
\* non-empty and page n is empty.
EndsAt(n) ==
    /\ \A k \in 0..n : server[k].page = k
    /\ \A k \in 0..(n - 1) : server[k].page_size > 0
    /\ server[n].page_size = 0

\* C1: over a listing whose pages 0..N-1 are non-empty and whose page N is
\* empty, each page reporting its own index, the iteration fetches indices
\* 0,1,...,N in that order, yields the pages fetched for 0..N-1 in that order
\* and signals the end, without yielding page N, at the N+1st step.
C1_IterationYieldsNonEmptyPrefix ==
    \A n \in PageIdx :
        (EndsAt(n) /\ iters[1] # <<>> /\ iters[1][1].position <= n + 1) =>
            LET it == iters[1][1]
            IN /\ it.calls = [k \in 1..it.position |-> k - 1]
               /\ it.yielded = [k \in 1..Min(it.position, n) |-> Fetcher(k - 1)]
               /\ it.stops = (IF it.position = n + 1 THEN 1 ELSE 0)
               /\ it.nexts = it.position

\* The listing of sizes [2,1,0] was iterated to its end: two pages yielded,
\* three fetches.
C1_Witness ==
    /\ EndsAt(2)
    /\ server[0].page_size = 2
    /\ server[1].page_size = 1
    /\ iters[1] # <<>>
    /\ iters[1][1].stops = 1
    /\ Len(iters[1][1].yielded) = 2
    /\ iters[1][1].calls = <<0, 1, 2>>

\* C2: a next call signals the end exactly when the page the iterator holds
\* (the one it fetched most recently) has size <= 0, whatever total_size and
\* the number of elements already yielded are.
C2_StopDependsOnlyOnPageSize ==
    (lastOp.op = "next") =>
        LET it == iters[lastOp.arg][1]
        IN /\ (lastOp.out = "StopIteration") <=> (it.cur_page[1].size <= 0)
           /\ (lastOp.out = "page") <=>
                  (it.yielded # <<>>
                   /\ it.yielded[Len(it.yielded)] = it.cur_page[1]
                   /\ it.cur_page[1].size > 0)

\* A page was yielded although the pages yielded before it already held
\* total_size elements or more.
C2_Witness ==
    /\ lastOp.op = "next"
    /\ lastOp.out = "page"
    /\ LET it == iters[1][1]
       IN /\ Len(it.yielded) >= 2
          /\ SumSizes(SubSeq(it.yielded, 1, Len(it.yielded) - 1))
                 >= it.cur_page[1].total_size

\* C3: every direct Pages.get(i) invokes the worker exactly once, with i,
\* returns the page the worker returned for i, and leaves every iterator
\* as it was.
C3_GetNeverCaches ==
    [][(lastOp'.op = "get" /\ nGets' = nGets + 1) =>
           /\ nCalls' = nCalls + 1
           /\ lastCall' = lastOp'.arg
           /\ got' = <<Fetcher(lastOp'.arg)>>
           /\ iters' = iters]_vars

\* Page 0 was requested by an iterator and then twice more through get.
C3_Witness ==
    /\ nGets = 2
    /\ lastOp.op = "get"
    /\ iters[1] # <<>>
    /\ iters[1][1].position = 1
    /\ iters[1][1].calls = <<0>>
    /\ nCalls = 3
    /\ Len(requests) = 3
    /\ \A k \in 1..3 : requests[k].query.page = 0

\* C4: calling fetch_batches, fetch_groups or fetch_inbounds issues no
\* request; the request log grows only in a get or an iterator step, by
\* exactly one GET of the listing for each page fetched.
C4_ListingIsLazy ==
    [][/\ (pages = "none" /\ pages' # "none") => requests' = requests
       /\ (requests' # requests) =>
              /\ lastOp'.op \in {"get", "next"}
              /\ nCalls' = nCalls + 1
              /\ requests' = Append(requests, PageRequest(pages, lastCall'))
       /\ (nCalls' # nCalls) => Len(requests') = Len(requests) + 1]_vars

\* A listing was created and two pages were fetched from it, one by get and
\* one by an iterator step: two requests.
C4_Witness ==
    /\ pages # "none"
    /\ nGets = 1
    /\ iters[1] # <<>>
    /\ iters[1][1].calls = <<0>>
    /\ Len(requests) = 2
    /\ nCalls = 2

----------------------------------------------------------------------------
(* Python values held by the API objects and by the serialized field maps *)

\* None; in a field map it is what JSON encodes as null.
PyNone == [tag |-> "None"]

\* api.RESET, the one instance of api.Reset
RESET == [tag |-> "Reset"]

Str(s) == [tag |-> "str", s |-> s]

\* A str given character by character.
Chars(cs) == [tag |-> "str", chars |-> cs]

\* A datetime: t is the local date and time, tz the UTC offset ("" when the
\* datetime is naive, i.e. utcoffset() is None).
Dt(t, tz) == [tag |-> "datetime", t |-> t, tz |-> tz]

\* A dict given by its set of <<key, value>> items.
Dict(items) == [tag |-> "dict", items |-> items]

\* A set / a list of MSISDNs, tags or group ids.  The elements are digit
\* strings of one length, written as the numbers they spell, so that the
\* string order sorted() uses is the numeric order.
PySet(S) == [tag |-> "set", elems |-> S]

PyList(q) == [tag |-> "list", seq |-> q]

Bytes(b) == [tag |-> "bytes", bytes |-> b]

\* Python truth value, as used by 'if value:'.  Reset and datetime define
\* neither __bool__ nor __len__ and are always true.
Truthy(x) ==
    CASE x.tag = "None" -> FALSE
      [] x.tag = "Reset" -> TRUE
      [] x.tag = "str" -> x # Str("") /\ x # Chars(<<>>)
      [] x.tag = "datetime" -> TRUE
      [] x.tag = "dict" -> x.items # {}
      [] x.tag = "set" -> x.elems # {}
      [] x.tag = "list" -> x.seq # <<>>
      [] x.tag = "bytes" -> x.bytes # <<>>
      [] OTHER -> TRUE

RECURSIVE SetToSortedSeq(_)
SetToSortedSeq(S) ==
    IF S = {} THEN <<>>
    ELSE LET m == CHOOSE e \in S : \A o \in S : e <= o
         IN <<m>> \o SetToSortedSeq(S \ {m})

\* A sorted() that hands a list back in the order it was given.
Sorted_asgiven(c) ==
    IF c.tag = "set" THEN PyList(SetToSortedSeq(c.elems)) ELSE c

\* sorted(collection): a new list in ascending order
Sorted(c) ==
    IF c.tag = "set" THEN PyList(SetToSortedSeq(c.elems))
    ELSE PyList(SortSeq(c.seq, LAMBDA a, b : a < b))

\* A field map (dict with str keys) and the assignment fields[k] = v.
EmptyMap == [k \in {} |-> PyNone]

Put(f, k, v) == [x \in DOMAIN f \cup {k} |-> IF x = k THEN v ELSE f[x]]

Has(f, k) == k \in DOMAIN f

----------------------------------------------------------------------------
(* serialize.py *)

\* A serializer in progress: the fields built so far, or the exception raised.
Building(map) == [out |-> "fields", map |-> map]

Raised(exc) == [out |-> exc, map |-> EmptyMap]

\* A _write_datetime without the check of the UTC offset.
WriteDatetime_unchecked(value) == [out |-> "ok", val |-> Str(value.t \o value.tz)]

\* serialize._write_datetime
WriteDatetime(value) ==
    IF value.tz = ""
    THEN [out |-> "ValueError", val |-> Str("Expected datetime with time zone")]
    ELSE [out |-> "ok", val |-> Str(value.t \o value.tz)]

HexDigits ==
    <<"0", "1", "2", "3", "4", "5", "6", "7",
      "8", "9", "a", "b", "c", "d", "e", "f">>

RECURSIVE HexOf(_)
HexOf(b) ==
    IF b = <<>> THEN <<>>
    ELSE <<HexDigits[(Head(b) \div 16) + 1], HexDigits[(Head(b) % 16) + 1]>>
         \o HexOf(Tail(b))

\* serialize._write_hex: binascii.hexlify
WriteHex(value) == Chars(HexOf(value.bytes))

B64Alphabet ==
    <<"A", "B", "C", "D", "E", "F", "G", "H", "I", "J", "K", "L", "M",
      "N", "O", "P", "Q", "R", "S", "T", "U", "V", "W", "X", "Y", "Z",
      "a", "b", "c", "d", "e", "f", "g", "h", "i", "j", "k", "l", "m",
      "n", "o", "p", "q", "r", "s", "t", "u", "v", "w", "x", "y", "z",
      "0", "1", "2", "3", "4", "5", "6", "7", "8", "9", "+", "/">>

RECURSIVE B64Of(_)
B64Of(b) ==
    IF b = <<>> THEN <<>>
    ELSE IF Len(b) = 1 THEN
        <<B64Alphabet[(b[1] \div 4) + 1],
          B64Alphabet[((b[1] % 4) * 16) + 1], "=", "=">>
    ELSE IF Len(b) = 2 THEN
        <<B64Alphabet[(b[1] \div 4) + 1],
          B64Alphabet[((b[1] % 4) * 16) + (b[2] \div 16) + 1],
          B64Alphabet[((b[2] % 16) * 4) + 1], "=">>
    ELSE
        <<B64Alphabet[(b[1] \div 4) + 1],
          B64Alphabet[((b[1] % 4) * 16) + (b[2] \div 16) + 1],
          B64Alphabet[((b[2] % 16) * 4) + (b[3] \div 64) + 1],
          B64Alphabet[(b[3] % 64) + 1]>>
        \o B64Of(SubSeq(b, 4, Len(b)))

\* serialize._write_base64: binascii.b2a_base64 ends its output with a newline
WriteBase64(value) == Chars(B64Of(value.bytes) \o <<"\n">>)

\* 'if value: fields[key] = value'
PutIfTruthy(st, key, value) ==
    IF st.out # "fields" THEN st
    ELSE IF Truthy(value) THEN Building(Put(st.map, key, value))
    ELSE st

\* 'if value: fields[key] = sorted(value)'
PutSortedIfTruthy(st, key, value) ==
    IF st.out # "fields" THEN st
    ELSE IF Truthy(value) THEN Building(Put(st.map, key, Sorted(value)))
    ELSE st

\* 'if value: fields[key] = _write_datetime(value)'
PutDatetimeIfTruthy(st, key, value) ==
    IF st.out # "fields" THEN st
    ELSE IF Truthy(value)
         THEN LET w == WriteDatetime(value)
              IN IF w.out = "ok" THEN Building(Put(st.map, key, w.val))
                 ELSE Raised(w.out)
    ELSE st

\* A resettable field serialized without the comparison with RESET.
PutResettable_unchecked(st, key, value) ==
    IF st.out # "fields" THEN st
    ELSE IF Truthy(value) THEN Building(Put(st.map, key, value))
    ELSE st

\* 'if value == RESET: fields[key] = None / elif value: fields[key] = value'
PutResettable(st, key, value) ==
    IF st.out # "fields" THEN st
    ELSE IF value = RESET THEN Building(Put(st.map, key, PyNone))
    ELSE PutIfTruthy(st, key, value)

\* the same with 'elif value: fields[key] = _write_datetime(value)'
PutResettableDatetime(st, key, value) ==
    IF st.out # "fields" THEN st
    ELSE IF value = RESET THEN Building(Put(st.map, key, PyNone))
    ELSE PutDatetimeIfTruthy(st, key, value)

\* 'if batch.sender: fields['from'] = batch.sender' (lines 110-111)
PutSender(st, value) == PutIfTruthy(st, "from", value)

\* 'fields[key] = value'
PutAlways(st, key, value) ==
    IF st.out # "fields" THEN st ELSE Building(Put(st.map, key, value))

\* serialize._create_batch_helper
create_batch_helper(batch) ==
    LET s0 == Building(Put(Put(EmptyMap, "from", batch.sender),
                           "to", Sorted(batch.recipients)))
        s1 == PutIfTruthy(s0, "delivery_report", batch.delivery_report)
        s2 == PutDatetimeIfTruthy(s1, "send_at", batch.send_at)
        s3 == PutDatetimeIfTruthy(s2, "expire_at", batch.expire_at)
        s4 == PutSortedIfTruthy(s3, "tags", batch.tags)
    IN PutIfTruthy(s4, "callback_url", batch.callback_url)

\* serialize.text_batch
text_batch(batch) ==
    LET s0 == create_batch_helper(batch)
        s1 == PutAlways(s0, "type", Str("mt_text"))
        s2 == PutAlways(s1, "body", batch.body)
    IN PutIfTruthy(s2, "parameters", batch.parameters)

\* serialize.binary_batch
binary_batch(batch) ==
    LET s0 == create_batch_helper(batch)
        s1 == PutAlways(s0, "type", Str("mt_binary"))
        s2 == PutAlways(s1, "body", WriteBase64(batch.body))
    IN PutAlways(s2, "udh", WriteHex(batch.udh))

\* serialize._batch_update_helper
batch_update_helper(batch) ==
    LET s0 == Building(EmptyMap)
        s1 == PutSortedIfTruthy(s0, "to_add", batch.recipient_insertions)
        s2 == PutSortedIfTruthy(s1, "to_remove", batch.recipient_removals)
        s3 == PutSender(s2, batch.sender)
        s4 == PutResettable(s3, "delivery_report", batch.delivery_report)
        s5 == PutResettableDatetime(s4, "send_at", batch.send_at)
        s6 == PutResettableDatetime(s5, "expire_at", batch.expire_at)
    IN PutResettable(s6, "callback_url", batch.callback_url)

\* serialize.text_batch_update
text_batch_update(batch) ==
    LET s0 == batch_update_helper(batch)
        s1 == PutAlways(s0, "type", Str("mt_text"))
        s2 == PutIfTruthy(s1, "body", batch.body)
    IN PutResettable(s2, "parameters", batch.parameters)

\* serialize.binary_batch_update
binary_batch_update(batch) ==
    LET s0 == batch_update_helper(batch)
        s1 == PutAlways(s0, "type", Str("mt_binary"))
        s2 == IF s1.out = "fields" /\ Truthy(batch.body)
              THEN PutAlways(s1, "body", WriteBase64(batch.body)) ELSE s1
    IN IF s2.out = "fields" /\ Truthy(batch.udh)
       THEN PutAlways(s2, "udh", WriteHex(batch.udh)) ELSE s2

\* A nested JSON object of a field map.
JsonObject(map) == [tag |-> "dict", map |-> map]

\* api.GroupAutoUpdate.__init__
GroupAutoUpdate(recipient, add1, add2, rem1, rem2) ==
    [tag |-> "GroupAutoUpdate", recipient |-> recipient,
     add_word_pair |-> <<add1, add2>>, remove_word_pair |-> <<rem1, rem2>>]

\* A word pair written with both positions whether they are set or not.
WordPairObject_full(pair) ==
    Put(Put(EmptyMap, "first_word", pair[1]), "second_word", pair[2])

\* The sub-object the setdefault calls build for one word pair.
WordPairObject(pair) ==
    LET m1 == IF Truthy(pair[1])
              THEN Put(EmptyMap, "first_word", pair[1]) ELSE EmptyMap
    IN IF Truthy(pair[2]) THEN Put(m1, "second_word", pair[2]) ELSE m1

\* serialize._group_auto_update_helper
group_auto_update_helper(auto_update) ==
    LET f0 == Put(EmptyMap, "to", auto_update.recipient)
        add == WordPairObject(auto_update.add_word_pair)
        rem == WordPairObject(auto_update.remove_word_pair)
        f1 == IF DOMAIN add # {} THEN Put(f0, "add", JsonObject(add)) ELSE f0
    IN IF DOMAIN rem # {} THEN Put(f1, "remove", JsonObject(rem)) ELSE f1

\* 'if v == RESET: fields['auto_update'] = None
\*  elif v: fields['auto_update'] = _group_auto_update_helper(v)'
PutResettableAutoUpdate(st, key, value) ==
    IF st.out # "fields" THEN st
    ELSE IF value = RESET THEN Building(Put(st.map, key, PyNone))
    ELSE IF Truthy(value)
         THEN Building(Put(st.map, key,
                           JsonObject(group_auto_update_helper(value))))
    ELSE st

\* serialize.group_update
group_update(o) ==
    LET s0 == Building(EmptyMap)
        s1 == PutResettable(s0, "name", o.name)
        s2 == PutSortedIfTruthy(s1, "add", o.member_insertions)
        s3 == PutSortedIfTruthy(s2, "remove", o.member_removals)
        s4 == PutSortedIfTruthy(s3, "child_groups_add",
                                o.child_group_insertions)
        s5 == PutSortedIfTruthy(s4, "child_groups_remove",
                                o.child_group_removals)
        s6 == PutIfTruthy(s5, "add_from_group", o.add_from_group)
        s7 == PutIfTruthy(s6, "remove_from_group", o.remove_from_group)
    IN PutResettableAutoUpdate(s7, "auto_update", o.auto_update)

\* The serializer the client picks for an object: hasattr(batch, 'udh')
\* tells binary from text batches.
Serialize(o) ==
    CASE o.kind = "text_create" -> text_batch(o)
      [] o.kind = "binary_create" -> binary_batch(o)
      [] o.kind = "text_update" -> text_batch_update(o)
      [] o.kind = "binary_update" -> binary_batch_update(o)
      [] o.kind = "group_update" -> group_update(o)

----------------------------------------------------------------------------
(* The objects handed to the serializers *)

\* Values of a field documented as 'str or None or Reset'
StrUpdates == {PyNone, RESET, Str(""), Str("x")}

\* Values of a field documented as 'datetime or None or Reset'
DatetimeUpdates ==
    {PyNone, RESET, Dt("2016-12-01T11:03:13", ""),
     Dt("2016-12-01T11:03:13", "+00:00")}

\* Values of a field documented as 'dict or None or Reset'
DictUpdates == {PyNone, RESET, Dict({}), Dict({<<"name", "Mary">>})}

MsisdnSets == {PySet({}), PySet({1, 2})}

TextBodies == {PyNone, Str(""), Str("hi")}

BinaryBodies == {PyNone, Bytes(<<>>), Bytes(<<0, 1, 2, 3>>)}

Udhs == {PyNone, Bytes(<<255, 254, 253>>)}

\* api.MtBatchTextSmsUpdate
TextUpdates ==
    [kind : {"text_update"}, body : TextBodies,
     sender : StrUpdates, delivery_report : StrUpdates,
     send_at : DatetimeUpdates, expire_at : DatetimeUpdates,
     callback_url : StrUpdates, parameters : DictUpdates,
     recipient_insertions : MsisdnSets, recipient_removals : {PySet({})}]

\* api.MtBatchBinarySmsUpdate
BinaryUpdates ==
    [kind : {"binary_update"}, body : BinaryBodies,
     sender : StrUpdates, delivery_report : StrUpdates,
     send_at : DatetimeUpdates, expire_at : DatetimeUpdates,
     callback_url : StrUpdates, udh : Udhs,
     recipient_insertions : {PySet({})}, recipient_removals : MsisdnSets]

AutoUpdates ==
    {PyNone, RESET,
     GroupAutoUpdate(Str("12345"), PyNone, PyNone, PyNone, PyNone),
     GroupAutoUpdate(Str("12345"), Str("ADD"), PyNone, Str("REMOVE"),
                     Str("ME"))}

\* api.GroupUpdate
GroupUpdates ==
    [kind : {"group_update"}, auto_update : AutoUpdates,
     name : StrUpdates, member_insertions : MsisdnSets,
     member_removals : MsisdnSets,
     child_group_insertions : MsisdnSets, child_group_removals : MsisdnSets,
     add_from_group : {PyNone, Str("g1")},
     remove_from_group : {PyNone, Str("g2")}]

UpdateObjects == TextUpdates \cup BinaryUpdates \cup GroupUpdates

\* A serializer that takes the fields out of the object as it writes them.
SerializeObject_consuming ==
    /\ obj # NoObj
    /\ fields' = Serialize(obj)
    /\ obj' = NoObj
    /\ lastOp' = [op |-> "serialize", arg |-> -1, out |-> fields'.out]
    /\ UNCHANGED <<server, pages, iters, nCalls, lastCall, requests, nGets,
                   got, response, result, nOps>>

\* A call of the serializer on the object, e.g. serialize.text_batch_update
SerializeObject ==
    /\ obj # NoObj
    /\ fields' = Serialize(obj)
    /\ lastOp' = [op |-> "serialize", arg |-> -1, out |-> fields'.out]
    /\ UNCHANGED <<server, pages, iters, nCalls, lastCall, requests, nGets,
                   got, obj, response, result, nOps>>

InitSerialize ==
    /\ obj \in UpdateObjects
    /\ fields = NoFields
    /\ server = <<>>
    /\ pages = "none"
    /\ iters = <<>>
    /\ nCalls = 0
    /\ lastCall = -1
    /\ requests = <<>>
    /\ nGets = 0
    /\ got = <<>>
    /\ response = NoResponse
    /\ result = NoResult
    /\ nOps = 0
    /\ lastOp = NoOp

NextSerialize == SerializeObject

SpecSerialize == InitSerialize /\ [][NextSerialize]_vars

----------------------------------------------------------------------------
(* Properties of the update serializers *)

\* The resettable fields of an update object; each is serialized under a
\* wire key of the same name.
ResettableFields(kind) ==
    CASE kind = "text_update" ->
             {"delivery_report", "send_at", "expire_at", "callback_url",
              "parameters"}
      [] kind = "binary_update" ->
             {"delivery_report", "send_at", "expire_at", "callback_url"}
      [] kind = "group_update" -> {"name", "auto_update"}
      [] OTHER -> {}

\* The serializer was applied to the object and returned a field map.
Serialized == lastOp.op = "serialize" /\ fields.out = "fields"

\* Every field of a batch update but delivery_report is left at its default.
OnlyDeliveryReportSet(o) ==
    /\ o.kind \in {"text_update", "binary_update"}
    /\ o.recipient_insertions = PySet({})
    /\ o.recipient_removals = PySet({})
    /\ o.sender = PyNone
    /\ o.send_at = PyNone
    /\ o.expire_at = PyNone
    /\ o.callback_url = PyNone
    /\ o.body = PyNone
    /\ o.kind = "text_update" => o.parameters = PyNone
    /\ o.kind = "binary_update" => o.udh = PyNone

\* C5: in the map of an update object, a resettable field that is RESET is
\* present with value null and one that is None is absent; with only
\* delivery_report = RESET the map is the type discriminator plus
\* delivery_report: null.
C5_ResetIsNullUnspecifiedIsAbsent ==
    Serialized =>
        /\ \A f \in ResettableFields(obj.kind) :
               /\ obj[f] = RESET =>
                      (Has(fields.map, f) /\ fields.map[f] = PyNone)
               /\ obj[f] = PyNone => ~Has(fields.map, f)
        /\ (OnlyDeliveryReportSet(obj) /\ obj.delivery_report = RESET) =>
               /\ DOMAIN fields.map = {"type", "delivery_report"}
               /\ fields.map["delivery_report"] = PyNone
               /\ fields.map["type"] =
                      (IF obj.kind = "text_update" THEN Str("mt_text")
                       ELSE Str("mt_binary"))

\* The text update with only delivery_report = RESET was serialized.
C5_Witness ==
    /\ Serialized
    /\ obj.kind = "text_update"
    /\ OnlyDeliveryReportSet(obj)
    /\ obj.delivery_report = RESET
    /\ fields.map = [delivery_report |-> PyNone, type |-> Str("mt_text")]

\* The wire value a concrete value of a resettable field stands for.
WireValue(f, value) ==
    IF f \in {"send_at", "expire_at"} THEN WriteDatetime(value).val
    ELSE IF f = "auto_update" THEN JsonObject(group_auto_update_helper(value))
    ELSE value

\* C6: in the map of an update object, a resettable field holding a concrete
\* value (neither None nor RESET), the empty string and the empty mapping
\* included, is present with that value.
C6_ConcreteValueIsCarried ==
    Serialized =>
        \A f \in ResettableFields(obj.kind) :
            (obj[f] # PyNone /\ obj[f] # RESET) =>
                /\ Has(fields.map, f)
                /\ fields.map[f] = WireValue(f, obj[f])

\* C7: in the map of a batch update, sender = None emits no 'from',
\* sender = RESET emits 'from': null and a string sender emits 'from' with
\* that string.
C7_SenderFollowsThreeWayRule ==
    (Serialized /\ obj.kind \in {"text_update", "binary_update"}) =>
        /\ obj.sender = PyNone => ~Has(fields.map, "from")
        /\ obj.sender = RESET =>
               (Has(fields.map, "from") /\ fields.map["from"] = PyNone)
        /\ obj.sender.tag = "str" =>
               (Has(fields.map, "from") /\ fields.map["from"] = obj.sender)

\* serialize.group_create
group_create(group) ==
    LET s0 == Building(EmptyMap)
        s1 == PutIfTruthy(s0, "name", group.name)
        s2 == PutSortedIfTruthy(s1, "members", group.members)
        s3 == PutSortedIfTruthy(s2, "child_groups", group.child_groups)
        s4 == IF Truthy(group.auto_update)
              THEN PutAlways(s3, "auto_update",
                       JsonObject(group_auto_update_helper(group.auto_update)))
              ELSE s3
    IN PutSortedIfTruthy(s4, "tags", group.tags)

\* serialize.tags
tags(tag_coll) == Building(Put(EmptyMap, "tags", Sorted(tag_coll)))

\* serialize.tags_update
tags_update(tags_to_add, tags_to_remove) ==
    Building(Put(Put(EmptyMap, "add", Sorted(tags_to_add)),
                 "remove", Sorted(tags_to_remove)))

----------------------------------------------------------------------------
(* deserialize.py: values of a JSON document and the helpers *)

\* JSON true/false and JSON numbers as Python holds them
Bool(b) == [tag |-> "bool", b |-> b]

PyInt(n) == [tag |-> "int", n |-> n]

\* What response.json() is when the body is no JSON document: the call raises
\* ValueError.
NotJson == [tag |-> "invalid"]

\* A requests.Response: status_code, text and what json() decodes text to
Response(status, text, json) == [status |-> status, text |-> text, json |-> json]

\* How a call ends: it returns a value or raises an exception that carries
\* a payload.
Returned(v) == [out |-> "ok", value |-> v]

Raise(exc, payload) == [out |-> exc, value |-> payload]

\* exceptions.UnexpectedResponseException(message, http_body)
UnexpectedResponse(http_body) ==
    Raise("UnexpectedResponseException", [http_body |-> http_body])

\* fields[key]: KeyError when the key is absent
Item(flds, key) ==
    IF key \in DOMAIN flds THEN Returned(flds[key])
    ELSE Raise("KeyError", [key |-> key])

\* 'target.attr = <right-hand side>': the first exception raised wins
Assign(st, attr, rhs) ==
    IF st.out # "ok" THEN st
    ELSE IF rhs.out # "ok" THEN rhs
    ELSE Returned([st.value EXCEPT ![attr] = rhs.value])

\* 'if key in fields: target.attr = <right-hand side>'
AssignIfPresent(st, flds, key, attr, rhs) ==
    IF st.out # "ok" THEN st
    ELSE IF key \in DOMAIN flds THEN Assign(st, attr, rhs)
    ELSE st

\* set(<list>): the elements without order and duplicates
SetOf(r) ==
    IF r.out # "ok" THEN r
    ELSE IF r.value.tag = "list"
    THEN Returned(PySet({r.value.seq[i] : i \in DOMAIN r.value.seq}))
    ELSE Raise("TypeError", PyNone)

\* The datetimes whose ISO-8601 text the model knows
Timestamps ==
    {Dt("2016-12-01T11:03:13", ""), Dt("2016-12-01T11:03:13", "+00:00"),
     Dt("2016-12-01T11:03:13.192000", "+00:00"),
     Dt("2016-12-04T11:03:13", "+01:00")}

\* datetime.isoformat(): local date and time followed by the UTC offset
IsoFormat(d) == d.t \o d.tz

\* iso8601.parse_date: the datetime the text spells; a text without offset
\* is taken as UTC; anything that is no ISO-8601 text raises ParseError.
ParseDate(v) ==
    IF v.tag = "str" /\ \E d \in Timestamps : Str(IsoFormat(d)) = v
    THEN LET d == CHOOSE d \in Timestamps : Str(IsoFormat(d)) = v
         IN Returned(Dt(d.t, IF d.tz = "" THEN "+00:00" ELSE d.tz))
    ELSE Raise("ParseError", PyNone)

\* deserialize._date_time: a ParseError becomes UnexpectedResponseException
date_time(json, r) ==
    IF r.out # "ok" THEN r
    ELSE LET p == ParseDate(r.value)
         IN IF p.out = "ParseError" THEN UnexpectedResponse(json) ELSE p

\* Position of a character in an alphabet, 0 when it is not in it
IndexIn(alphabet, c) ==
    IF \E i \in DOMAIN alphabet : alphabet[i] = c
    THEN CHOOSE i \in DOMAIN alphabet : alphabet[i] = c
    ELSE 0

RECURSIVE UnhexOf(_)
UnhexOf(cs) ==
    IF cs = <<>> THEN <<>>
    ELSE <<(IndexIn(HexDigits, cs[1]) - 1) * 16 + IndexIn(HexDigits, cs[2]) - 1>>
         \o UnhexOf(SubSeq(cs, 3, Len(cs)))

\* binascii.unhexlify: an odd length or a non-hex digit raises binascii.Error
unhexlify(r) ==
    IF r.out # "ok" THEN r
    ELSE IF r.value.tag # "str" THEN Raise("TypeError", PyNone)
    ELSE LET cs == r.value.chars
         IN IF Len(cs) % 2 = 1 \/ \E i \in DOMAIN cs : IndexIn(HexDigits, cs[i]) = 0
            THEN Raise("binascii.Error", PyNone)
            ELSE Returned(Bytes(UnhexOf(cs)))

RECURSIVE A2bOf(_)
\* The bytes of consecutive groups of four base64 characters
A2bOf(cs) ==
    IF cs = <<>> THEN <<>>
    ELSE LET a == IndexIn(B64Alphabet, cs[1]) - 1
             b == IndexIn(B64Alphabet, cs[2]) - 1
             c == IndexIn(B64Alphabet, cs[3]) - 1
             d == IndexIn(B64Alphabet, cs[4]) - 1
             b1 == a * 4 + (b \div 16)
             b2 == (b % 16) * 16 + (c \div 4)
             b3 == (c % 4) * 64 + d
         IN IF cs[3] = "=" THEN <<b1>>
            ELSE IF cs[4] = "=" THEN <<b1, b2>>
            ELSE <<b1, b2, b3>> \o A2bOf(SubSeq(cs, 5, Len(cs)))

\* An a2b_base64 that takes every character for a base64 digit.
a2b_base64_strict(r) ==
    IF r.out # "ok" THEN r
    ELSE IF r.value.tag # "str" THEN Raise("TypeError", PyNone)
    ELSE LET cs == r.value.chars
         IN IF Len(cs) % 4 # 0 THEN Raise("binascii.Error", PyNone)
            ELSE Returned(Bytes(A2bOf(cs)))

\* binascii.a2b_base64: characters outside the alphabet (the newline) are
\* skipped; incomplete padding raises binascii.Error
a2b_base64(r) ==
    IF r.out # "ok" THEN r
    ELSE IF r.value.tag # "str" THEN Raise("TypeError", PyNone)
    ELSE LET cs == SelectSeq(r.value.chars,
                       LAMBDA c : c = "=" \/ IndexIn(B64Alphabet, c) # 0)
         IN IF Len(cs) % 4 # 0 THEN Raise("binascii.Error", PyNone)
            ELSE Returned(Bytes(A2bOf(cs)))

----------------------------------------------------------------------------
(* deserialize.py: the result objects and the deserializers *)

\* api.MtBatchTextSmsResult()
MtBatchTextSmsResult ==
    [kind |-> "MtBatchTextSmsResult", body |-> PyNone, sender |-> PyNone,
     recipients |-> PySet({}), delivery_report |-> PyNone,
     send_at |-> PyNone, expire_at |-> PyNone, callback_url |-> PyNone,
     parameters |-> PyNone, batch_id |-> PyNone, created_at |-> PyNone,
     modified_at |-> PyNone, canceled |-> PyNone]

\* api.MtBatchBinarySmsResult()
MtBatchBinarySmsResult ==
    [kind |-> "MtBatchBinarySmsResult", body |-> PyNone, sender |-> PyNone,
     recipients |-> PySet({}), delivery_report |-> PyNone,
     send_at |-> PyNone, expire_at |-> PyNone, callback_url |-> PyNone,
     udh |-> PyNone, batch_id |-> PyNone, created_at |-> PyNone,
     modified_at |-> PyNone, canceled |-> PyNone]

\* deserialize._batch_response_helper
batch_response_helper(json, flds, batch) ==
    LET s1 == Assign(batch, "batch_id", Item(flds, "id"))
        s2 == Assign(s1, "recipients", SetOf(Item(flds, "to")))
        s3 == Assign(s2, "sender", Item(flds, "from"))
        s4 == Assign(s3, "canceled", Item(flds, "canceled"))
        s5 == AssignIfPresent(s4, flds, "delivery_report", "delivery_report",
                              Item(flds, "delivery_report"))
        s6 == AssignIfPresent(s5, flds, "send_at", "send_at",
                              date_time(json, Item(flds, "send_at")))
        s7 == AssignIfPresent(s6, flds, "expire_at", "expire_at",
                              date_time(json, Item(flds, "expire_at")))
        s8 == AssignIfPresent(s7, flds, "created_at", "created_at",
                              date_time(json, Item(flds, "created_at")))
        s9 == AssignIfPresent(s8, flds, "modified_at", "modified_at",
                              date_time(json, Item(flds, "modified_at")))
    IN AssignIfPresent(s9, flds, "callback_url", "callback_url",
                       Item(flds, "callback_url"))

\* The else branch of a dispatch on 'type': the message is built with
\* '...' + fields['type'], which needs a str.
UnexpectedType(json, type) ==
    IF type.tag = "str" THEN UnexpectedResponse(json)
    ELSE Raise("TypeError", PyNone)

\* A dispatch on 'type' that takes every unrecognized value for a text batch.
batch_response_from_fields_lenient(json, flds) ==
    LET type == Item(flds, "type")
    IN IF type.out # "ok" THEN type
       ELSE IF type.value = Str("mt_binary")
       THEN batch_response_helper(json, flds,
                Assign(Assign(Returned(MtBatchBinarySmsResult), "udh",
                              unhexlify(Item(flds, "udh"))),
                       "body", a2b_base64(Item(flds, "body"))))
       ELSE batch_response_helper(json, flds,
                AssignIfPresent(
                    Assign(Returned(MtBatchTextSmsResult), "body",
                           Item(flds, "body")),
                    flds, "parameters", "parameters",
                    Item(flds, "parameters")))

\* deserialize._batch_response_from_fields
batch_response_from_fields(json, flds) ==
    LET type == Item(flds, "type")
    IN IF type.out # "ok" THEN type
       ELSE IF type.value = Str("mt_text")
       THEN batch_response_helper(json, flds,
                AssignIfPresent(
                    Assign(Returned(MtBatchTextSmsResult), "body",
                           Item(flds, "body")),
                    flds, "parameters", "parameters",
                    Item(flds, "parameters")))
       ELSE IF type.value = Str("mt_binary")
       THEN batch_response_helper(json, flds,
                Assign(Assign(Returned(MtBatchBinarySmsResult), "udh",
                              unhexlify(Item(flds, "udh"))),
                       "body", a2b_base64(Item(flds, "body"))))
       ELSE UnexpectedType(json, type.value)

\* deserialize._check_response: the raw text and the decoded fields
deserialize_check_response(resp) ==
    IF resp.json = NotJson THEN UnexpectedResponse(resp.text)
    ELSE Returned(resp.json)

\* 'fields = response.json()' outside any try block
ResponseJson(resp) ==
    IF resp.json = NotJson THEN Raise("ValueError", PyNone)
    ELSE Returned(resp.json)

\* deserialize.batch_result
batch_result(resp) ==
    LET c == deserialize_check_response(resp)
    IN IF c.out # "ok" THEN c
       ELSE batch_response_from_fields(resp.text, c.value.map)

\* api.MtBatchDryRunResult() and api.DryRunPerRecipient()
MtBatchDryRunResult ==
    [kind |-> "MtBatchDryRunResult", number_of_recipients |-> PyNone,
     number_of_messages |-> PyNone, per_recipient |-> PyList(<<>>)]

DryRunPerRecipient ==
    [kind |-> "DryRunPerRecipient", body |-> PyNone, recipient |-> PyNone,
     number_of_parts |-> PyNone, encoding |-> PyNone]

\* batch_dry_run_result.recipient
dry_run_recipient(json, flds) ==
    LET s1 == Assign(Returned(DryRunPerRecipient), "recipient",
                     Item(flds, "recipient"))
        s2 == Assign(s1, "number_of_parts", Item(flds, "number_of_parts"))
        s3 == Assign(s2, "body", Item(flds, "body"))
    IN Assign(s3, "encoding", Item(flds, "encoding"))

\* api.BatchDeliveryReport() and api.BatchDeliveryReportStatus()
BatchDeliveryReport ==
    [kind |-> "BatchDeliveryReport", batch_id |-> PyNone,
     total_message_count |-> PyNone, statuses |-> PyList(<<>>)]

BatchDeliveryReportStatus ==
    [count |-> PyNone,
     kind |-> "BatchDeliveryReportStatus",
     status |-> PyNone,
     recipients |-> PySet({}),
     code |-> PyNone]

\* batch_delivery_report.report_status
report_status(json, flds) ==
    LET s1 == Assign(Returned(BatchDeliveryReportStatus), "code",
                     Item(flds, "code"))
        s2 == Assign(s1, "status", Item(flds, "status"))
        s3 == Assign(s2, "count", Item(flds, "count"))
    IN AssignIfPresent(s3, flds, "recipients", "recipients",
                       SetOf(Item(flds, "recipients")))

\* api.BatchRecipientDeliveryReport()
BatchRecipientDeliveryReport ==
    [kind |-> "BatchRecipientDeliveryReport",
     status |-> PyNone,
     recipient |-> PyNone,
     batch_id |-> PyNone,
     code |-> PyNone,
     status_message |-> PyNone,
     operator |-> PyNone,
     status_at |-> PyNone,
     operator_status_at |-> PyNone]

\* api.GroupResult()
GroupResult ==
    [size |-> PyNone,
     kind |-> "GroupResult",
     auto_update |-> PyNone,
     name |-> PyNone,
     child_groups |-> PySet({}),
     created_at |-> PyNone,
     modified_at |-> PyNone,
     group_id |-> PyNone]

\* dict.get(key, default)
GetOr(flds, key, default) == IF key \in DOMAIN flds THEN flds[key] ELSE default

\* deserialize._auto_update_from_fields
auto_update_from_fields(flds) ==
    LET add_map == GetOr(flds, "add", JsonObject(EmptyMap)).map
        remove_map == GetOr(flds, "remove", JsonObject(EmptyMap)).map
        to == Item(flds, "to")
    IN IF to.out # "ok" THEN to
       ELSE Returned(GroupAutoUpdate(to.value,
                GetOr(add_map, "first_word", PyNone),
                GetOr(add_map, "second_word", PyNone),
                GetOr(remove_map, "first_word", PyNone),
                GetOr(remove_map, "second_word", PyNone)))

\* deserialize._group_result_from_fields
group_result_from_fields(json, flds) ==
    LET s1 == Assign(Returned(GroupResult), "child_groups",
                     SetOf(Item(flds, "child_groups")))
        s2 == Assign(s1, "group_id", Item(flds, "id"))
        s3 == Assign(s2, "size", Item(flds, "size"))
        s4 == Assign(s3, "created_at",
                     date_time(json, Item(flds, "created_at")))
        s5 == Assign(s4, "modified_at",
                     date_time(json, Item(flds, "modified_at")))
        s6 == AssignIfPresent(s5, flds, "name", "name", Item(flds, "name"))
    IN AssignIfPresent(s6, flds, "auto_update", "auto_update",
           IF "auto_update" \in DOMAIN flds
           THEN auto_update_from_fields(flds["auto_update"].map)
           ELSE Returned(PyNone))

\* api.MoTextSms() and api.MoBinarySms()
MoTextSms ==
    [kind |-> "MoTextSms", body |-> PyNone, sender |-> PyNone,
     recipient |-> PyNone, operator |-> PyNone, message_id |-> PyNone,
     sent_at |-> PyNone, received_at |-> PyNone, keyword |-> PyNone]

MoBinarySms ==
    [kind |-> "MoBinarySms", body |-> PyNone, sender |-> PyNone,
     udh |-> PyNone, recipient |-> PyNone, operator |-> PyNone,
     message_id |-> PyNone, sent_at |-> PyNone, received_at |-> PyNone]

\* The statements of _mo_sms_from_fields after the dispatch on 'type'
mo_sms_common(json, flds, st) ==
    LET s1 == Assign(st, "message_id", Item(flds, "id"))
        s2 == Assign(s1, "sender", Item(flds, "from"))
        s3 == Assign(s2, "recipient", Item(flds, "to"))
        s4 == AssignIfPresent(s3, flds, "operator", "operator",
                              Item(flds, "operator"))
        s5 == AssignIfPresent(s4, flds, "sent_at", "sent_at",
                              date_time(json, Item(flds, "sent_at")))
    IN AssignIfPresent(s5, flds, "received_at", "received_at",
                       date_time(json, Item(flds, "received_at")))

\* deserialize._mo_sms_from_fields
mo_sms_from_fields(json, flds) ==
    LET type == Item(flds, "type")
    IN IF type.out # "ok" THEN type
       ELSE IF type.value = Str("mo_text")
       THEN mo_sms_common(json, flds,
                AssignIfPresent(
                    Assign(Returned(MoTextSms), "body", Item(flds, "body")),
                    flds, "keyword", "keyword", Item(flds, "keyword")))
       ELSE IF type.value = Str("mo_binary")
       THEN mo_sms_common(json, flds,
                Assign(Assign(Returned(MoBinarySms), "udh",
                              unhexlify(Item(flds, "udh"))),
                       "body", a2b_base64(Item(flds, "body"))))
       ELSE UnexpectedType(json, type.value)

\* The function a list comprehension applies to each element
ElementFrom(key, json, flds) ==
    CASE key = "batches" -> batch_response_from_fields(json, flds)
      [] key = "groups" -> group_result_from_fields(json, flds)
      [] key = "inbounds" -> mo_sms_from_fields(json, flds)
      [] key = "per_recipient" -> dry_run_recipient(json, flds)
      [] key = "statuses" -> report_status(json, flds)

RECURSIVE MapElements(_, _, _, _)
\* '[f(s) for s in fields[key]]': the list of the results, or the first
\* exception an element raises
MapElements(key, json, q, acc) ==
    IF q = <<>> THEN Returned(PyList(acc))
    ELSE LET r == ElementFrom(key, json, Head(q).map)
         IN IF r.out # "ok" THEN r
            ELSE MapElements(key, json, Tail(q), Append(acc, r.value))

\* A comprehension that walks the array from its end.
Comprehension_reversed(key, json, flds) ==
    LET l == Item(flds, key)
    IN IF l.out # "ok" THEN l
       ELSE MapElements(key, json,
                [k \in 1..Len(l.value.seq) |->
                    l.value.seq[Len(l.value.seq) + 1 - k]], <<>>)

\* The comprehension over fields[key]
Comprehension(key, json, flds) ==
    LET l == Item(flds, key)
    IN IF l.out # "ok" THEN l
       ELSE MapElements(key, json, l.value.seq, <<>>)

\* api.Page()
NewPage ==
    [page |-> PyNone,
     content |-> PyNone,
     size |-> PyNone,
     total_size |-> PyNone,
     kind |-> "Page"]

\* The body shared by batches_page, groups_page and inbounds_page
PageOf(resp, key) ==
    LET c == deserialize_check_response(resp)
    IN IF c.out # "ok" THEN c
       ELSE LET flds == c.value.map
                s1 == Assign(Returned(NewPage), "page", Item(flds, "page"))
                s2 == Assign(s1, "size", Item(flds, "page_size"))
                s3 == Assign(s2, "total_size", Item(flds, "count"))
            IN Assign(s3, "content", Comprehension(key, resp.text, flds))

\* deserialize.batches_page
batches_page(resp) == PageOf(resp, "batches")

\* deserialize.groups_page
groups_page(resp) == PageOf(resp, "groups")

\* deserialize.inbounds_page
inbounds_page(resp) == PageOf(resp, "inbounds")

\* deserialize.batch_dry_run_result
batch_dry_run_result(resp) ==
    LET c == ResponseJson(resp)
    IN IF c.out # "ok" THEN c
       ELSE LET flds == c.value.map
                s1 == Assign(Returned(MtBatchDryRunResult),
                             "number_of_recipients",
                             Item(flds, "number_of_recipients"))
                s2 == Assign(s1, "number_of_messages",
                             Item(flds, "number_of_messages"))
            IN AssignIfPresent(s2, flds, "per_recipient", "per_recipient",
                   Comprehension("per_recipient", resp.text, flds))

\* A type check of a report that lets a missing 'type' pass.
ReportTypeCheck_lenient(resp, flds, expected_type) ==
    IF "type" \in DOMAIN flds /\ flds["type"] # Str(expected_type)
    THEN UnexpectedResponse(resp.text)
    ELSE Returned(PyNone)

\* 'if 'type' not in fields or fields['type'] != expected_type: raise ...'
ReportTypeCheck(resp, flds, expected_type) ==
    IF "type" \notin DOMAIN flds \/ flds["type"] # Str(expected_type)
    THEN UnexpectedResponse(resp.text)
    ELSE Returned(PyNone)

\* deserialize.batch_delivery_report
batch_delivery_report(resp) ==
    LET c == ResponseJson(resp)
    IN IF c.out # "ok" THEN c
       ELSE LET flds == c.value.map
                t == ReportTypeCheck(resp, flds, "delivery_report_sms")
                s1 == Assign(Returned(BatchDeliveryReport), "batch_id",
                             Item(flds, "batch_id"))
                s2 == Assign(s1, "total_message_count",
                             Item(flds, "total_message_count"))
            IN IF t.out # "ok" THEN t
               ELSE Assign(s2, "statuses",
                           Comprehension("statuses", resp.text, flds))

\* deserialize.batch_recipient_delivery_report
batch_recipient_delivery_report(resp) ==
    LET c == ResponseJson(resp)
    IN IF c.out # "ok" THEN c
       ELSE LET flds == c.value.map
                t == ReportTypeCheck(resp, flds,
                                     "recipient_delivery_report_sms")
                s1 == Assign(Returned(BatchRecipientDeliveryReport),
                             "batch_id", Item(flds, "batch_id"))
                s2 == Assign(s1, "recipient", Item(flds, "recipient"))
                s3 == Assign(s2, "code", Item(flds, "code"))
                s4 == Assign(s3, "status", Item(flds, "status"))
                s5 == Assign(s4, "status_at",
                             date_time(resp.text, Item(flds, "at")))
                s6 == AssignIfPresent(s5, flds, "status_message",
                          "status_message", Item(flds, "status_message"))
                s7 == AssignIfPresent(s6, flds, "operator", "operator",
                                      Item(flds, "operator"))
            IN IF t.out # "ok" THEN t
               ELSE AssignIfPresent(s7, flds, "operator_status_at",
                        "operator_status_at",
                        date_time(resp.text, Item(flds, "operator_status_at")))

\* api.Error(code, text)
Error(code, text) == [kind |-> "Error", code |-> code, error_text |-> text]

\* deserialize.error
error(resp) ==
    LET c == ResponseJson(resp)
    IN IF c.out # "ok" THEN c
       ELSE LET code == Item(c.value.map, "code")
                text == Item(c.value.map, "text")
            IN IF code.out # "ok" THEN code
               ELSE IF text.out # "ok" THEN text
               ELSE Returned(Error(code.value, text.value))

\* deserialize.group_result
group_result(resp) ==
    LET c == ResponseJson(resp)
    IN IF c.out # "ok" THEN c
       ELSE group_result_from_fields(resp.text, c.value.map)

\* deserialize.group_members: the document is a JSON array
group_members(resp) == SetOf(deserialize_check_response(resp))

\* deserialize.tags
deserialize_tags(resp) ==
    LET c == deserialize_check_response(resp)
    IN IF c.out # "ok" THEN c ELSE SetOf(Item(c.value.map, "tags"))

\* deserialize.mo_sms
mo_sms(resp) ==
    LET c == deserialize_check_response(resp)
    IN IF c.out # "ok" THEN c
       ELSE mo_sms_from_fields(resp.text, c.value.map)

\* The deserializer entry points
Deserializers ==
    {"batch_result", "batches_page", "batch_dry_run_result",
     "batch_delivery_report", "batch_recipient_delivery_report", "error",
     "group_result", "groups_page", "group_members", "tags", "mo_sms",
     "inbounds_page"}

\* The entry point a client operation hands its response to; cancel_batch
\* and delete_group hand it to none and return None.
Deserialize(deser, resp) ==
    CASE deser = "batch_result" -> batch_result(resp)
      [] deser = "batches_page" -> batches_page(resp)
      [] deser = "batch_dry_run_result" -> batch_dry_run_result(resp)
      [] deser = "batch_delivery_report" -> batch_delivery_report(resp)
      [] deser = "batch_recipient_delivery_report" ->
             batch_recipient_delivery_report(resp)
      [] deser = "error" -> error(resp)
      [] deser = "group_result" -> group_result(resp)
      [] deser = "groups_page" -> groups_page(resp)
      [] deser = "group_members" -> group_members(resp)
      [] deser = "tags" -> deserialize_tags(resp)
      [] deser = "mo_sms" -> mo_sms(resp)
      [] deser = "inbounds_page" -> inbounds_page(resp)
      [] deser = "None" -> Returned(PyNone)

----------------------------------------------------------------------------
(* The documents an XMS server answers with *)

\* A JSON object with one key removed / one key set
Without(doc, k) == JsonObject([x \in DOMAIN doc.map \ {k} |-> doc.map[x]])

With(doc, k, v) == JsonObject(Put(doc.map, k, v))

TextBatchDoc ==
    JsonObject([body |-> Str("hi"),
                type |-> Str("mt_text"),
                canceled |-> Bool(FALSE),
                to |-> PyList(<<1, 2>>),
                from |-> Str("12345"),
                id |-> Str("X1")])

BinaryBatchDoc ==
    JsonObject([body |-> Chars(<<"A", "A", "E", "C", "A", "w", "=", "=", "\n">>),
                send_at |-> Str("2016-12-01T11:03:13.192000+00:00"),
                udh |-> Chars(<<"f", "f", "f", "e", "f", "d">>),
                type |-> Str("mt_binary"),
                canceled |-> Bool(TRUE),
                to |-> PyList(<<1, 2>>),
                from |-> Str("12345"),
                id |-> Str("X2")])

MoTextDoc ==
    JsonObject([body |-> Str("hello"),
                type |-> Str("mo_text"),
                to |-> Str("12345"),
                received_at |-> Str("2016-12-01T11:03:13+00:00"),
                from |-> Str("987654321"),
                id |-> Str("M1")])

MoBinaryDoc ==
    JsonObject([body |-> Chars(<<"A", "A", "E", "=", "\n">>),
                udh |-> Chars(<<"0", "0">>),
                type |-> Str("mo_binary"),
                to |-> Str("12345"),
                from |-> Str("987654321"),
                id |-> Str("M2")])

StatusDoc ==
    JsonObject([count |-> PyInt(2),
                status |-> Str("Delivered"),
                recipients |-> PyList(<<1, 2>>),
                code |-> PyInt(0)])

DeliveryReportDoc ==
    JsonObject([type |-> Str("delivery_report_sms"),
                batch_id |-> Str("X1"), total_message_count |-> PyInt(2),
                statuses |-> PyList(<<StatusDoc>>)])

RecipientReportDoc ==
    JsonObject([status |-> Str("Delivered"),
                recipient |-> Str("123456789"),
                type |-> Str("recipient_delivery_report_sms"),
                batch_id |-> Str("X1"),
                code |-> PyInt(0),
                at |-> Str("2016-12-01T11:03:13+00:00")])

ErrorDoc ==
    JsonObject([text |-> Str("Bad request"), code |-> Str("syntax_error")])

GroupDoc ==
    JsonObject([size |-> PyInt(2),
                auto_update |->
                    JsonObject([add |-> JsonObject(
                                    [first_word |-> Str("ADD")]),
                                to |-> Str("12345")]),
                name |-> Str("g"),
                child_groups |-> PyList(<<1>>),
                created_at |-> Str("2016-12-01T11:03:13+00:00"),
                modified_at |-> Str("2016-12-04T11:03:13+01:00"),
                id |-> Str("G1")])

DryRunDoc ==
    JsonObject([number_of_recipients |-> PyInt(1),
                number_of_messages |-> PyInt(1),
                per_recipient |-> PyList(<<
                    JsonObject([body |-> Str("hi"),
                                recipient |-> Str("123456789"),
                                number_of_parts |-> PyInt(1),
                                encoding |-> Str("text")])>>)])

TagsDoc == JsonObject([tags |-> PyList(<<1, 2>>)])

\* The body of a group members response is a JSON array
MembersDoc == PyList(<<1, 2>>)

\* A page document holding the given elements under 'key'
PageDoc(key, page, page_size, count, elements) ==
    JsonObject(Put([page |-> PyInt(page), page_size |-> PyInt(page_size),
                    count |-> PyInt(count)],
                   key, PyList(elements)))

\* The document a successful call of the entry point expects
ValidDoc(deser) ==
    CASE deser = "batch_result" -> TextBatchDoc
      [] deser = "batches_page" ->
             PageDoc("batches", 0, 2, 3, <<TextBatchDoc, BinaryBatchDoc>>)
      [] deser = "batch_dry_run_result" -> DryRunDoc
      [] deser = "batch_delivery_report" -> DeliveryReportDoc
      [] deser = "batch_recipient_delivery_report" -> RecipientReportDoc
      [] deser = "error" -> ErrorDoc
      [] deser = "group_result" -> GroupDoc
      [] deser = "groups_page" -> PageDoc("groups", 0, 1, 1, <<GroupDoc>>)
      [] deser = "group_members" -> MembersDoc
      [] deser = "tags" -> TagsDoc
      [] deser = "mo_sms" -> MoTextDoc
      [] deser = "inbounds_page" ->
             PageDoc("inbounds", 1, 2, 4, <<MoTextDoc, MoBinaryDoc>>)
      [] deser = "None" -> PyNone

\* HTTP status codes the server answers with
Statuses == {199, 200, 299, 300, 400, 401, 403, 404, 500}

\* A response whose text is the rendering of the document it decodes to
JsonResponse(status, doc) == Response(status, ToString(doc), doc)

\* A response whose body is no JSON document
HtmlResponse(status) == Response(status, "<html>proxy error</html>", NotJson)

\* What the server may answer to the request of an operation whose result
\* goes to the entry point 'deser'
ServerResponses(deser) ==
    {JsonResponse(200, ValidDoc(deser)), HtmlResponse(200),
     JsonResponse(299, ValidDoc(deser)),
     JsonResponse(400, ErrorDoc), HtmlResponse(400),
     JsonResponse(400, Without(ErrorDoc, "code")),
     JsonResponse(403, ErrorDoc)}
    \cup {HtmlResponse(s) : s \in Statuses \ {200, 299, 400, 403}}

----------------------------------------------------------------------------
(* client.py: URLs, requests and responses *)

\* urllib quote_plus on one character: letters and digits are kept, a space
\* becomes '+', any other character its %XX escape.
QuotePlusChar(c) ==
    CASE c = " " -> <<"+">>
      [] c = "/" -> <<"%", "2", "F">>
      [] OTHER -> <<c>>

RECURSIVE quote_plus(_)
\* urllib quote_plus on a string given character by character
quote_plus(str) ==
    IF str = <<>> THEN <<>>
    ELSE QuotePlusChar(Head(str)) \o quote_plus(Tail(str))

\* Client._url; a URL is kept as the sequence of its pieces
Url(sub_path) == [out |-> "ok", url |-> <<UrlPrefix>> \o sub_path]

UrlError(exc) == [out |-> exc, url |-> <<>>]

\* A _batch_url that accepts every identifier.
batch_url_unchecked(batch_id, sub_path) ==
    Url(<<"/batches/">> \o quote_plus(batch_id) \o sub_path)

\* Client._batch_url
batch_url(batch_id, sub_path) ==
    LET ebid == quote_plus(batch_id)
    IN IF ebid = <<>> THEN UrlError("ValueError")
       ELSE Url(<<"/batches/">> \o ebid \o sub_path)

\* Client._group_url
group_url(group_id, sub_path) ==
    LET egid == quote_plus(group_id)
    IN IF egid = <<>> THEN UrlError("ValueError")
       ELSE Url(<<"/groups/">> \o egid \o sub_path)

\* Client.fetch_inbound, lines 711-716
inbound_url(inbound_id) ==
    LET eiid == quote_plus(inbound_id)
    IN IF eiid = <<>> THEN UrlError("ValueError")
       ELSE Url(<<"/inbounds/">> \o eiid)

\* The credentials the client was constructed with
ServicePlanId == "{service_plan_id}"

Token == "{token}"

\* A _check_response that hands every response that is not 400, 401, 403 or
\* 404 back to the caller.
check_response_lenient(resp, url) ==
    IF resp.status = 400 \/ resp.status = 403
    THEN LET e == error(resp)
         IN IF e.out # "ok" THEN e
            ELSE Raise("ErrorResponseException",
                       [error_code |-> e.value.code,
                        message |-> e.value.error_text])
    ELSE IF resp.status = 404 THEN Raise("NotFoundException", [url |-> url])
    ELSE IF resp.status = 401
    THEN Raise("UnauthorizedException",
               [service_plan_id |-> ServicePlanId, token |-> Token])
    ELSE Returned(resp)

\* Client._check_response: the response is returned or an exception raised;
\* for 400 and 403 the body goes through deserialize.error first.
check_response(resp, url) ==
    IF resp.status >= 200 /\ resp.status < 300 THEN Returned(resp)
    ELSE IF resp.status = 400 \/ resp.status = 403
    THEN LET e == error(resp)
         IN IF e.out # "ok" THEN e
            ELSE Raise("ErrorResponseException",
                       [error_code |-> e.value.code,
                        message |-> e.value.error_text])
    ELSE IF resp.status = 404 THEN Raise("NotFoundException", [url |-> url])
    ELSE IF resp.status = 401
    THEN Raise("UnauthorizedException",
               [service_plan_id |-> ServicePlanId, token |-> Token])
    ELSE UnexpectedResponse(resp.text)

\* The deserializer entry points a checked response went through
RanOn(resp, deser) ==
    IF resp.status = 400 \/ resp.status = 403 THEN <<"error">>
    ELSE IF check_response(resp, <<>>).out = "ok" /\ deser # "None"
    THEN <<deser>>
    ELSE <<>>

\* json.dumps of the request body fails on a value that is no JSON type.
JsonSerializable(map) == \A k \in DOMAIN map : map[k] # RESET

NoSer == Building(EmptyMap)

\* An operation that raised before it issued a request
FailedEarly(op, arg, exc) ==
    /\ requests' = requests
    /\ response' = response
    /\ result' = Raise(exc, PyNone)
    /\ lastOp' = [op |-> op, arg |-> arg, out |-> exc, ran |-> <<>>]

\* One client operation: 'ser' is the outcome of its serializer call (NoSer
\* when it sends no body), 'urlr' of its URL construction, evaluated in that
\* order; then the request goes out through _get/_post/_put/_delete, the
\* response is checked and handed to the deserializer 'deser'.
ClientCall(op, arg, hasBody, ser, urlr, query, method, deser) ==
    /\ nOps < MaxOps
    /\ nOps' = nOps + 1
    /\ fields' = (IF hasBody THEN ser ELSE fields)
    /\ IF ser.out # "fields" THEN FailedEarly(op, arg, ser.out)
       ELSE IF urlr.out # "ok" THEN FailedEarly(op, arg, urlr.out)
       ELSE IF ~JsonSerializable(ser.map) THEN FailedEarly(op, arg, "TypeError")
       ELSE \E resp \in ServerResponses(deser) :
            LET chk == check_response(resp, urlr.url)
                res == IF chk.out = "ok" THEN Deserialize(deser, resp) ELSE chk
            IN /\ requests' = Append(requests,
                      [method |-> method, url |-> urlr.url, query |-> query,
                       body |-> IF hasBody THEN JsonObject(ser.map) ELSE NoBody])
               /\ response' = resp
               /\ result' = res
               /\ lastOp' = [op |-> op, arg |-> arg, out |-> res.out,
                             ran |-> RanOn(resp, deser)]
    /\ UNCHANGED <<server, pages, iters, nCalls, lastCall, nGets, got, obj>>

\* The inputs of an operation, as kept in lastOp.arg
Arg(id, recipient, batch) ==
    [batch |-> batch, recipient |-> recipient, id |-> id]

NoId == <<"-">>

\* Client.create_batch
create_batch(batch) ==
    ClientCall("create_batch", Arg(NoId, NoId, batch), TRUE, Serialize(batch),
               Url(<<"/batches">>), EmptyMap, "POST", "batch_result")

\* Client.create_text_message
create_text_message(sender, recipient, body) ==
    create_batch(
        [kind |-> "text_create", body |-> body, sender |-> sender,
         recipients |-> PySet({recipient}), delivery_report |-> PyNone,
         send_at |-> PyNone, expire_at |-> PyNone, tags |-> PySet({}),
         callback_url |-> PyNone, parameters |-> Dict({})])

\* Client.create_binary_message
create_binary_message(sender, recipient, udh, body) ==
    create_batch(
        [kind |-> "binary_create", body |-> body, sender |-> sender,
         recipients |-> PySet({recipient}), delivery_report |-> PyNone,
         send_at |-> PyNone, expire_at |-> PyNone, tags |-> PySet({}),
         callback_url |-> PyNone, udh |-> udh])

\* Client.replace_batch
replace_batch(batch_id, batch) ==
    ClientCall("replace_batch", Arg(batch_id, NoId, batch), TRUE,
               Serialize(batch), batch_url(batch_id, <<>>), EmptyMap, "PUT",
               "batch_result")

\* Client.update_batch
update_batch(batch_id, batch) ==
    ClientCall("update_batch", Arg(batch_id, NoId, batch), TRUE,
               Serialize(batch), batch_url(batch_id, <<>>), EmptyMap, "POST",
               "batch_result")

\* Client.cancel_batch
cancel_batch(batch_id) ==
    ClientCall("cancel_batch", Arg(batch_id, NoId, NoObj), FALSE, NoSer,
               batch_url(batch_id, <<>>), EmptyMap, "DELETE", "None")

\* Client.fetch_batch
fetch_batch(batch_id) ==
    ClientCall("fetch_batch", Arg(batch_id, NoId, NoObj), FALSE, NoSer,
               batch_url(batch_id, <<>>), EmptyMap, "GET", "batch_result")

\* Client.create_batch_dry_run
create_batch_dry_run(batch, num_recipients) ==
    ClientCall("create_batch_dry_run", Arg(NoId, NoId, batch), TRUE,
               Serialize(batch), Url(<<"/batches/dry_run">>),
               IF num_recipients # 0
               THEN [number_of_recipients |-> num_recipients,
                     per_recipient |-> 1]
               ELSE EmptyMap,
               "POST", "batch_dry_run_result")

\* Client.fetch_batch_tags
fetch_batch_tags(batch_id) ==
    ClientCall("fetch_batch_tags", Arg(batch_id, NoId, NoObj), FALSE, NoSer,
               batch_url(batch_id, <<"/tags">>), EmptyMap, "GET", "tags")

\* Client.replace_batch_tags
replace_batch_tags(batch_id, tag_coll) ==
    ClientCall("replace_batch_tags", Arg(batch_id, NoId, NoObj), TRUE,
               tags(tag_coll), batch_url(batch_id, <<"/tags">>), EmptyMap,
               "PUT", "tags")

\* Client.update_batch_tags
update_batch_tags(batch_id, tags_to_add, tags_to_remove) ==
    ClientCall("update_batch_tags", Arg(batch_id, NoId, NoObj), TRUE,
               tags_update(tags_to_add, tags_to_remove),
               batch_url(batch_id, <<"/tags">>), EmptyMap, "POST", "tags")

\* 'if value: params[key] = ','.join(sorted(value))' and the like
PutParam(params, key, value) ==
    IF ~Truthy(value) THEN params
    ELSE IF value.tag = "set" THEN Put(params, key, Sorted(value))
    ELSE Put(params, key, value)

\* Client.fetch_delivery_report
fetch_delivery_report(batch_id, kind, status, code) ==
    LET params == PutParam(PutParam(PutParam(EmptyMap, "type", kind),
                                    "status", status), "code", code)
    IN ClientCall("fetch_delivery_report", Arg(batch_id, NoId, NoObj), FALSE,
                  NoSer, batch_url(batch_id, <<"/delivery_report">>), params,
                  "GET", "batch_delivery_report")

\* Client.fetch_recipient_delivery_report
fetch_recipient_delivery_report(batch_id, recipient) ==
    LET path == <<"/delivery_report/">> \o quote_plus(recipient)
    IN ClientCall("fetch_recipient_delivery_report",
                  Arg(batch_id, recipient, NoObj), FALSE, NoSer,
                  batch_url(batch_id, path), EmptyMap, "GET",
                  "batch_recipient_delivery_report")

\* Client.create_group
create_group(group) ==
    ClientCall("create_group", Arg(NoId, NoId, group), TRUE,
               group_create(group), Url(<<"/groups">>), EmptyMap, "POST",
               "group_result")

\* Client.replace_group
replace_group(group_id, group) ==
    ClientCall("replace_group", Arg(group_id, NoId, group), TRUE,
               group_create(group), group_url(group_id, <<>>), EmptyMap,
               "PUT", "group_result")

\* Client.update_group
update_group(group_id, group) ==
    ClientCall("update_group", Arg(group_id, NoId, group), TRUE,
               group_update(group), group_url(group_id, <<>>), EmptyMap,
               "POST", "group_result")

\* Client.delete_group
delete_group(group_id) ==
    ClientCall("delete_group", Arg(group_id, NoId, NoObj), FALSE, NoSer,
               group_url(group_id, <<>>), EmptyMap, "DELETE", "None")

\* Client.fetch_group
fetch_group(group_id) ==
    ClientCall("fetch_group", Arg(group_id, NoId, NoObj), FALSE, NoSer,
               group_url(group_id, <<>>), EmptyMap, "GET", "group_result")

\* Client.fetch_group_members
fetch_group_members(group_id) ==
    ClientCall("fetch_group_members", Arg(group_id, NoId, NoObj), FALSE,
               NoSer, group_url(group_id, <<"/members">>), EmptyMap, "GET",
               "group_members")

\* Client.fetch_group_tags
fetch_group_tags(group_id) ==
    ClientCall("fetch_group_tags", Arg(group_id, NoId, NoObj), FALSE, NoSer,
               group_url(group_id, <<"/tags">>), EmptyMap, "GET", "tags")

\* Client.replace_group_tags
replace_group_tags(group_id, tag_coll) ==
    ClientCall("replace_group_tags", Arg(group_id, NoId, NoObj), TRUE,
               tags(tag_coll), group_url(group_id, <<"/tags">>), EmptyMap,
               "PUT", "tags")

\* Client.update_group_tags
update_group_tags(group_id, tags_to_add, tags_to_remove) ==
    ClientCall("update_group_tags", Arg(group_id, NoId, NoObj), TRUE,
               tags_update(tags_to_add, tags_to_remove),
               group_url(group_id, <<"/tags">>), EmptyMap, "POST", "tags")

\* Client.fetch_inbound
fetch_inbound(inbound_id) ==
    ClientCall("fetch_inbound", Arg(inbound_id, NoId, NoObj), FALSE, NoSer,
               inbound_url(inbound_id), EmptyMap, "GET", "mo_sms")

----------------------------------------------------------------------------
(* The inputs of the client operations *)

\* Identifiers, character by character: the empty string among them
ClientIds == {<<>>, <<"a">>, <<" ", "/">>}

\* A naive and an aware datetime
Naive == Dt("2016-12-01T11:03:13", "")

Aware == Dt("2016-12-01T11:03:13", "+00:00")

\* The <<send_at, expire_at>> pairs of the create objects
CreateTimes ==
    {<<PyNone, PyNone>>, <<Naive, PyNone>>, <<PyNone, Naive>>,
     <<Aware, Aware>>}

\* api.MtBatchTextSmsCreate
TextCreates ==
    {[kind |-> "text_create", body |-> Str("hi"), sender |-> Str("12345"),
      recipients |-> PySet({1, 2}), delivery_report |-> PyNone,
      send_at |-> t[1], expire_at |-> t[2], tags |-> PySet({}),
      callback_url |-> PyNone, parameters |-> Dict({})] : t \in CreateTimes}

\* api.MtBatchBinarySmsCreate
BinaryCreates ==
    {[kind |-> "binary_create", body |-> Bytes(<<0, 1, 2, 3>>),
      sender |-> Str("12345"),
      recipients |-> PySet({1, 2}), delivery_report |-> PyNone,
      send_at |-> t[1], expire_at |-> t[2], tags |-> PySet({}),
      callback_url |-> PyNone, udh |-> Bytes(<<255, 254, 253>>)] :
        t \in {<<Naive, Aware>>, <<Aware, PyNone>>}}

ClientCreates == TextCreates \cup BinaryCreates

\* The <<sender, send_at, expire_at>> triples of the update objects
UpdateTimes ==
    {<<PyNone, PyNone, PyNone>>, <<PyNone, Naive, RESET>>,
     <<PyNone, RESET, Naive>>, <<PyNone, Aware, Aware>>,
     <<RESET, PyNone, PyNone>>}

\* Update objects that differ in their timestamps and their sender
ClientUpdates ==
    {u \in TextUpdates \cup BinaryUpdates :
        /\ u.recipient_insertions = PySet({})
        /\ u.recipient_removals = PySet({})
        /\ <<u.sender, u.send_at, u.expire_at>> \in UpdateTimes
        /\ u.delivery_report = PyNone
        /\ u.callback_url = PyNone
        /\ u.body = PyNone
        /\ u.kind = "text_update" => u.parameters = PyNone
        /\ u.kind = "binary_update" =>
               (u.udh = PyNone /\ u.send_at # PyNone /\ u.sender = PyNone)}

\* api.GroupCreate
ClientGroupCreates ==
    [kind : {"group_create"}, tags : {PySet({})}, auto_update : {PyNone},
     name : {Str("g")}, members : {PySet({1, 2})},
     child_groups : {PySet({})}]

ClientGroupUpdates ==
    {g \in GroupUpdates :
        /\ g.member_insertions = PySet({})
        /\ g.member_removals = PySet({})
        /\ g.child_group_insertions = PySet({})
        /\ g.child_group_removals = PySet({})
        /\ g.add_from_group = PyNone
        /\ g.remove_from_group = PyNone
        /\ g.auto_update = PyNone
        /\ g.name \in {RESET, Str("x")}}

ClientTags == {PySet({1, 2})}

InitClient ==
    /\ requests = <<>>
    /\ lastOp = NoOp
    /\ fields = NoFields
    /\ obj = NoObj
    /\ server = <<>>
    /\ pages = "none"
    /\ iters = <<>>
    /\ nCalls = 0
    /\ lastCall = -1
    /\ nGets = 0
    /\ got = <<>>
    /\ response = NoResponse
    /\ result = NoResult
    /\ nOps = 0

NextClient ==
    \/ \E b \in ClientCreates : create_batch(b)
    \/ create_text_message(Str("12345"), 1, Str("hi"))
    \/ create_binary_message(Str("12345"), 1, Bytes(<<255>>), Bytes(<<0, 1>>))
    \/ \E id \in ClientIds, b \in ClientCreates : replace_batch(id, b)
    \/ \E id \in ClientIds, b \in ClientUpdates : update_batch(id, b)
    \/ \E id \in ClientIds : cancel_batch(id)
    \/ \E id \in ClientIds : fetch_batch(id)
    \/ \E b \in TextCreates : create_batch_dry_run(b, 0)
    \/ \E b \in BinaryCreates : create_batch_dry_run(b, 2)
    \/ \E id \in ClientIds : fetch_batch_tags(id)
    \/ \E id \in ClientIds, t \in ClientTags : replace_batch_tags(id, t)
    \/ \E id \in ClientIds, t \in ClientTags :
           update_batch_tags(id, t, PySet({}))
    \/ \E id \in ClientIds :
           \/ fetch_delivery_report(id, PyNone, PyNone, PyNone)
           \/ fetch_delivery_report(id, Str("full"), PySet({1, 2}),
                                    PySet({0, 11, 400}))
    \/ \E id \in ClientIds, r \in ClientIds :
           fetch_recipient_delivery_report(id, r)
    \/ \E g \in ClientGroupCreates : create_group(g)
    \/ \E id \in ClientIds, g \in ClientGroupCreates : replace_group(id, g)
    \/ \E id \in ClientIds, g \in ClientGroupUpdates : update_group(id, g)
    \/ \E id \in ClientIds : delete_group(id)
    \/ \E id \in ClientIds : fetch_group(id)
    \/ \E id \in ClientIds : fetch_group_members(id)
    \/ \E id \in ClientIds : fetch_group_tags(id)
    \/ \E id \in ClientIds, t \in ClientTags : replace_group_tags(id, t)
    \/ \E id \in ClientIds, t \in ClientTags :
           update_group_tags(id, t, PySet({}))
    \/ \E id \in ClientIds : fetch_inbound(id)

SpecClient == InitClient /\ [][NextClient]_vars

----------------------------------------------------------------------------
(* Properties of the client operations *)

\* A timestamp without UTC offset
IsNaive(v) == v.tag = "datetime" /\ v.tz = ""

\* The operations that serialize a create or update batch
BatchSendingOps ==
    {"create_batch", "replace_batch", "update_batch", "create_batch_dry_run"}

\* The operations that take a batch id, a group id or an inbound id
IdOps ==
    {"replace_batch", "update_batch", "cancel_batch", "fetch_batch",
     "fetch_batch_tags", "replace_batch_tags", "update_batch_tags",
     "fetch_delivery_report", "fetch_recipient_delivery_report",
     "replace_group", "update_group", "delete_group", "fetch_group",
     "fetch_group_members", "fetch_group_tags", "replace_group_tags",
     "update_group_tags", "fetch_inbound"}

\* C8: create_batch, replace_batch, update_batch and create_batch_dry_run
\* given a batch whose send_at or expire_at has no UTC offset end in
\* ValueError: the serializer raises it and returns no field map, and no
\* request is issued.
C8_NaiveTimestampFailsBeforeRequest ==
    [][(/\ lastOp'.op \in BatchSendingOps
        /\ \/ IsNaive(lastOp'.arg.batch.send_at)
           \/ IsNaive(lastOp'.arg.batch.expire_at)) =>
           /\ lastOp'.out = "ValueError"
           /\ fields'.out = "ValueError"
           /\ fields'.map = EmptyMap
           /\ requests' = requests]_vars

\* update_batch was called with a valid batch id and an update whose
\* send_at is naive, and raised ValueError with nothing sent.
C8_Witness ==
    /\ lastOp.op = "update_batch"
    /\ lastOp.arg.id # <<>>
    /\ IsNaive(lastOp.arg.batch.send_at)
    /\ lastOp.out = "ValueError"
    /\ fields.out = "ValueError"
    /\ requests = <<>>

\* C9: an operation that takes a batch, group or inbound id and is given the
\* empty string ends in ValueError and issues no request.
C9_EmptyIdRaisesBeforeRequest ==
    [][(lastOp'.op \in IdOps /\ lastOp'.arg.id = <<>>) =>
           /\ lastOp'.out = "ValueError"
           /\ requests' = requests]_vars

\* fetch_batch_tags was called with the empty batch id and raised ValueError.
C9_Witness ==
    /\ lastOp.op = "fetch_batch_tags"
    /\ lastOp.arg.id = <<>>
    /\ lastOp.out = "ValueError"
    /\ requests = <<>>

\* C10: fetch_recipient_delivery_report given a non-empty batch id and an
\* empty recipient ends in ValueError and issues no request.
C10_EmptyRecipientRaisesBeforeRequest ==
    [][(/\ lastOp'.op = "fetch_recipient_delivery_report"
        /\ lastOp'.arg.id # <<>>
        /\ lastOp'.arg.recipient = <<>>) =>
           /\ lastOp'.out = "ValueError"
           /\ requests' = requests]_vars

\* The outcome of Client._check_response on the latest response
Checked == check_response(response, requests[Len(requests)].url)

\* C11: what checking a response ends in is fixed by its HTTP status alone:
\* 200..299 returns the response, 400 and 403 raise ErrorResponseException
\* with the code and text of the body, 404 raises NotFoundException with the
\* requested URL, 401 raises UnauthorizedException with the service plan id
\* and token, every other status raises UnexpectedResponseException with the
\* raw body.
C11_OutcomeIsAFunctionOfStatus ==
    response # NoResponse =>
        LET s == response.status
            c == Checked
        IN /\ (s >= 200 /\ s < 300) => c = Returned(response)
           /\ s \in {400, 403} =>
                  /\ c.out = "ErrorResponseException"
                  /\ c.value.error_code = response.json.map["code"]
                  /\ c.value.message = response.json.map["text"]
           /\ s = 404 =>
                  /\ c.out = "NotFoundException"
                  /\ c.value.url = requests[Len(requests)].url
           /\ s = 401 =>
                  /\ c.out = "UnauthorizedException"
                  /\ c.value.service_plan_id = ServicePlanId
                  /\ c.value.token = Token
           /\ (s < 200 \/ s >= 300) /\ s \notin {400, 401, 403, 404} =>
                  c = UnexpectedResponse(response.text)
           /\ c.out # "ok" => result = c

\* C12: an operation issues at most one request; when the status of the
\* response is not 2xx the operation ends in an exception and no result
\* deserializer has run.
C12_OneRequestAndErrorsPropagate ==
    [][/\ Len(requests') <= Len(requests) + 1
       /\ (requests' # requests
           /\ ~(response'.status >= 200 /\ response'.status < 300)) =>
              /\ result'.out \notin {"ok", "none"}
              /\ \A i \in DOMAIN lastOp'.ran : lastOp'.ran[i] = "error"]_vars

\* fetch_batch got a 500 response: one request, UnexpectedResponseException
\* raised, no deserializer run.
C12_Witness ==
    /\ lastOp.op = "fetch_batch"
    /\ Len(requests) = 1
    /\ response.status = 500
    /\ result = UnexpectedResponse(response.text)
    /\ lastOp.ran = <<>>

----------------------------------------------------------------------------
(* The deserializers applied to the documents a server may send *)

\* Documents that decode without error
GoodDocs ==
    {TextBatchDoc, BinaryBatchDoc, MoTextDoc, MoBinaryDoc, DeliveryReportDoc,
     RecipientReportDoc, ErrorDoc, GroupDoc, DryRunDoc, TagsDoc}

\* The documents with one key missing
DocsWithoutOneKey ==
    UNION {{Without(d, k) : k \in DOMAIN d.map} : d \in GoodDocs}

\* 'type' values no deserializer recognizes; one of them is no string
UnknownTypes == {Str("mt_rich"), Str(""), PyInt(7)}

\* Documents with a 'type' that is not theirs, some with further keys missing
DocsWithOtherType ==
    {With(d, "type", ty) :
        ty \in UnknownTypes,
        d \in {TextBatchDoc, MoTextDoc, DeliveryReportDoc, RecipientReportDoc,
               Without(DeliveryReportDoc, "batch_id"),
               Without(RecipientReportDoc, "at")}}

\* Documents with a timestamp that is no ISO-8601 text
DocsWithBadTimestamp ==
    {With(TextBatchDoc, "send_at", Str("yesterday")),
     With(MoTextDoc, "received_at", Str("yesterday")),
     With(GroupDoc, "created_at", Str("yesterday")),
     With(RecipientReportDoc, "at", Str("yesterday"))}

\* Pages: full, short, empty, with a page_size that is not the number of
\* elements, and with elements that do not decode
PageDocs ==
    {PageDoc("batches", 0, 2, 3, <<TextBatchDoc, BinaryBatchDoc>>),
     PageDoc("batches", 1, 1, 3, <<TextBatchDoc>>),
     PageDoc("batches", 2, 0, 3, <<>>),
     PageDoc("batches", 0, 2, 3, <<TextBatchDoc>>),
     PageDoc("batches", 0, 0, 1, <<BinaryBatchDoc>>),
     PageDoc("batches", 0, 2, 2,
             <<TextBatchDoc, With(BinaryBatchDoc, "type", Str("mt_rich"))>>),
     PageDoc("batches", 0, 1, 1, <<Without(TextBatchDoc, "type")>>),
     PageDoc("groups", 0, 1, 1, <<GroupDoc>>),
     PageDoc("groups", 0, 2, 1, <<GroupDoc>>),
     PageDoc("groups", 1, 0, 1, <<>>),
     PageDoc("inbounds", 0, 2, 2, <<MoTextDoc, MoBinaryDoc>>),
     PageDoc("inbounds", 0, 1, 2, <<MoTextDoc, MoBinaryDoc>>),
     PageDoc("inbounds", 0, 1, 1, <<With(MoTextDoc, "type", Str("mo_rich"))>>),
     PageDoc("inbounds", 0, 1, 1, <<Without(MoBinaryDoc, "type")>>)}

\* Documents whose arrays hold several elements, some of them twice
DocsWithArrays ==
    {With(TextBatchDoc, "to", PyList(<<2, 1, 2>>)),
     JsonObject([tags |-> PyList(<<2, 1, 2>>)]),
     PyList(<<2, 1, 2>>),
     With(DeliveryReportDoc, "statuses",
          PyList(<<With(With(With(StatusDoc, "status", Str("Failed")),
                             "code", PyInt(1)),
                        "recipients", PyList(<<2, 1, 2>>)),
                   StatusDoc>>)),
     With(DryRunDoc, "per_recipient",
          PyList(<<JsonObject([body |-> Str("hi"),
                               recipient |-> Str("987654321"),
                               number_of_parts |-> PyInt(1),
                               encoding |-> Str("text")]),
                   JsonObject([body |-> Str("hi"),
                               recipient |-> Str("123456789"),
                               number_of_parts |-> PyInt(1),
                               encoding |-> Str("text")])>>))}

WireDocs ==
    GoodDocs \cup DocsWithoutOneKey \cup DocsWithOtherType
    \cup DocsWithBadTimestamp \cup PageDocs \cup {MembersDoc}
    \cup DocsWithArrays

WireResponses ==
    {JsonResponse(200, d) : d \in WireDocs} \cup {HtmlResponse(200)}

\* An entry point indexes the document it is given by key, group_members
\* iterates over it: the former are handed JSON objects, the latter arrays.
Applicable(deser, resp) ==
    \/ resp.json = NotJson
    \/ (deser = "group_members" /\ resp.json.tag = "list")
    \/ (deser # "group_members" /\ resp.json.tag = "dict")

\* A call of a deserializer entry point on the response
DeserializeResponse(deser) ==
    /\ Applicable(deser, response)
    /\ result' = Deserialize(deser, response)
    /\ lastOp' = [op |-> "deserialize", arg |-> deser, out |-> result'.out]
    /\ UNCHANGED <<server, pages, iters, nCalls, lastCall, requests, nGets,
                   got, obj, fields, response, nOps>>

InitDeserialize ==
    /\ response \in WireResponses
    /\ result = NoResult
    /\ nOps = 0
    /\ lastOp = NoOp
    /\ obj = NoObj
    /\ fields = NoFields
    /\ server = <<>>
    /\ pages = "none"
    /\ iters = <<>>
    /\ nCalls = 0
    /\ lastCall = -1
    /\ requests = <<>>
    /\ nGets = 0
    /\ got = <<>>

NextDeserialize == \E deser \in Deserializers : DeserializeResponse(deser)

SpecDeserialize == InitDeserialize /\ [][NextDeserialize]_vars

----------------------------------------------------------------------------
(* Properties of the deserializers *)

\* A deserializer entry point has been applied to the response
Deserialized(deser) == lastOp.op = "deserialize" /\ lastOp.arg = deser

\* The document has a 'type' that is a string outside the given values
HasUnknownType(doc, known) ==
    /\ doc.tag = "dict"
    /\ Has(doc.map, "type")
    /\ doc.map["type"].tag = "str"
    /\ doc.map["type"] \notin known

BatchTypes == {Str("mt_text"), Str("mt_binary")}

MoTypes == {Str("mo_text"), Str("mo_binary")}

\* The page document is complete and its first element that is no document
\* of GoodDocs has a 'type' string outside the given values
PageHasUnknownType(doc, key, known) ==
    /\ doc.tag = "dict"
    /\ {key, "page", "page_size", "count"} \subseteq DOMAIN doc.map
    /\ \E i \in DOMAIN doc.map[key].seq :
           /\ HasUnknownType(doc.map[key].seq[i], known)
           /\ \A j \in 1..(i - 1) : doc.map[key].seq[j] \in GoodDocs

\* C13: a batch, an MO message or a report whose 'type' is a string outside
\* the recognized values, alone or as the element of a page, makes the
\* deserializer raise UnexpectedResponseException with the raw response text;
\* no object is returned.
C13_UnknownTypeIsRejected ==
    LET doc == response.json
        rejected == result = UnexpectedResponse(response.text)
    IN /\ (Deserialized("batch_result") /\ HasUnknownType(doc, BatchTypes))
              => rejected
       /\ (Deserialized("mo_sms") /\ HasUnknownType(doc, MoTypes))
              => rejected
       /\ (/\ Deserialized("batch_delivery_report")
           /\ HasUnknownType(doc, {Str("delivery_report_sms")})) => rejected
       /\ (/\ Deserialized("batch_recipient_delivery_report")
           /\ HasUnknownType(doc, {Str("recipient_delivery_report_sms")}))
              => rejected
       /\ (/\ Deserialized("batches_page")
           /\ PageHasUnknownType(doc, "batches", BatchTypes)) => rejected
       /\ (/\ Deserialized("inbounds_page")
           /\ PageHasUnknownType(doc, "inbounds", MoTypes)) => rejected

\* batches_page met an element of type 'mt_rich' after a valid element and
\* raised UnexpectedResponseException with the text of the whole page.
C13_Witness ==
    /\ Deserialized("batches_page")
    /\ PageHasUnknownType(response.json, "batches", BatchTypes)
    /\ Len(response.json.map["batches"].seq) = 2
    /\ result = UnexpectedResponse(response.text)

\* The keys _batch_response_helper reads unconditionally
RequiredBatchKeys == {"id", "to", "from", "canceled"}

\* C14: a batch result or MO message without 'type', or a batch without one
\* of id, to, from, canceled, makes the deserializer raise
\* UnexpectedResponseException with the raw response text.
C14_MissingFieldIsMalformedResponse ==
    LET doc == response.json
        rejected == result = UnexpectedResponse(response.text)
    IN /\ (/\ Deserialized("batch_result") \/ Deserialized("mo_sms")
           /\ doc.tag = "dict"
           /\ ~Has(doc.map, "type")) => rejected
       /\ (/\ Deserialized("batch_result")
           /\ doc.tag = "dict"
           /\ Has(doc.map, "type")
           /\ doc.map["type"] \in BatchTypes
           /\ ~(RequiredBatchKeys \subseteq DOMAIN doc.map)) => rejected

\* C15: every entry point given a response whose body is no JSON raises
\* UnexpectedResponseException with the raw response text.
C15_InvalidJsonIsMalformedResponse ==
    (lastOp.op = "deserialize" /\ response.json = NotJson) =>
        result = UnexpectedResponse(response.text)

\* C16: batch_delivery_report and batch_recipient_delivery_report return a
\* report only for their own 'type'; any other value and a missing 'type'
\* raise UnexpectedResponseException with the raw document, whatever other
\* keys are missing.
C16_ReportTypeIsValidatedFirst ==
    LET doc == response.json
        Checks(deser, expected) ==
            (Deserialized(deser) /\ doc.tag = "dict") =>
                /\ result.out = "ok" =>
                       (Has(doc.map, "type") /\ doc.map["type"] = Str(expected))
                /\ (~Has(doc.map, "type") \/ doc.map["type"] # Str(expected))
                       => result = UnexpectedResponse(response.text)
    IN /\ Checks("batch_delivery_report", "delivery_report_sms")
       /\ Checks("batch_recipient_delivery_report",
                 "recipient_delivery_report_sms")

\* batch_delivery_report was given a report without 'type' and raised
\* UnexpectedResponseException.
C16_Witness ==
    /\ Deserialized("batch_delivery_report")
    /\ response.json = Without(DeliveryReportDoc, "type")
    /\ result = UnexpectedResponse(response.text)

\* C17: a page returned by batches_page, groups_page or inbounds_page has
\* size equal to the number of elements of its content, page equal to the
\* wire page index and total_size equal to the wire count.
C17_PageSizeIsContentLength ==
    (/\ lastOp.op = "deserialize"
     /\ lastOp.arg \in {"batches_page", "groups_page", "inbounds_page"}
     /\ result.out = "ok") =>
        /\ result.value.size = PyInt(Len(result.value.content.seq))
        /\ result.value.page = response.json.map["page"]
        /\ result.value.total_size = response.json.map["count"]

----------------------------------------------------------------------------
(* Create objects: serialized, echoed by the server and deserialized *)

\* Collections the caller supplies as a set or as a list in its own order
Collections == {PySet({}), PySet({1, 2}), PyList(<<2, 1>>)}

\* send_at and expire_at of a create object
SendTimes ==
    {PyNone, Dt("2016-12-01T11:03:13", ""),
     Dt("2016-12-01T11:03:13.192000", "+00:00")}

ExpireTimes == {PyNone, Dt("2016-12-04T11:03:13", "+01:00")}

\* api.MtBatchTextSmsCreate objects
RoundTripTextCreates ==
    [kind : {"text_create"}, body : {PyNone, Str("hi")},
     sender : {PyNone, Str("12345")}, recipients : Collections,
     delivery_report : {PyNone, Str("summary")}, send_at : SendTimes,
     expire_at : ExpireTimes, tags : {PySet({}), PyList(<<2, 1>>)},
     callback_url : {PyNone, Str("http://localhost/callback")},
     parameters : {Dict({}), Dict({<<"name", "Mary">>})}]

\* api.MtBatchBinarySmsCreate objects
RoundTripBinaryCreates ==
    [kind : {"binary_create"},
     body : {Bytes(<<>>), Bytes(<<255>>), Bytes(<<0, 1>>),
             Bytes(<<0, 1, 2, 3>>)},
     sender : {PyNone, Str("12345")}, recipients : Collections,
     delivery_report : {PyNone, Str("summary")}, send_at : SendTimes,
     expire_at : ExpireTimes, tags : {PySet({}), PyList(<<2, 1>>)},
     callback_url : {PyNone},
     udh : {Bytes(<<>>), Bytes(<<255, 254, 253>>)}]

\* api.GroupCreate objects
RoundTripGroupCreates ==
    [kind : {"group_create"}, tags : {PySet({}), PyList(<<2, 1>>)},
     auto_update : {PyNone,
                    GroupAutoUpdate(Str("12345"), PyNone, PyNone, PyNone,
                                    PyNone),
                    GroupAutoUpdate(Str("12345"), PyNone, Str("JOIN"),
                                    Str("LEAVE"), PyNone),
                    GroupAutoUpdate(Str("12345"), Str("ADD"), PyNone,
                                    Str("REMOVE"), Str("ME"))},
     name : {PyNone, Str("g")}, members : Collections,
     child_groups : {PySet({}), PySet({1})}]

CreateObjects ==
    RoundTripTextCreates \cup RoundTripBinaryCreates
    \cup RoundTripGroupCreates

\* serialize.text_batch, binary_batch or group_create called on the object
SerializeCreate ==
    /\ fields' = (IF obj.kind = "group_create" THEN group_create(obj)
                  ELSE Serialize(obj))
    /\ lastOp' = [op |-> "serialize", arg |-> -1, out |-> fields'.out]
    /\ UNCHANGED <<server, pages, iters, nCalls, lastCall, requests, nGets,
                   got, obj, response, result, nOps>>

\* The document the server answers a created group with: the fields it
\* was sent, the id it assigned, the size, the timestamps and the child
\* groups (an empty array when there are none).
GroupEcho(map) ==
    LET d1 == With(JsonObject(map), "id", Str("G1"))
        d2 == With(d1, "size",
                   PyInt(IF Has(map, "members") THEN Len(map["members"].seq)
                         ELSE 0))
        d3 == With(d2, "created_at", Str("2016-12-01T11:03:13+00:00"))
        d4 == With(d3, "modified_at", Str("2016-12-01T11:03:13+00:00"))
    IN IF Has(map, "child_groups") THEN d4
       ELSE With(d4, "child_groups", PyList(<<>>))

\* The server answers a created batch with a document of the same shape,
\* to which it has added the id it assigned and the canceled flag, and a
\* created group with the document GroupEcho describes.
ServerEcho ==
    /\ obj.kind \in {"text_create", "binary_create", "group_create"}
    /\ fields.out = "fields"
    /\ response' = JsonResponse(201,
           IF obj.kind = "group_create" THEN GroupEcho(fields.map)
           ELSE With(With(JsonObject(fields.map), "id", Str("X1")),
                     "canceled", Bool(FALSE)))
    /\ lastOp' = [op |-> "echo", arg |-> -1, out |-> "ok"]
    /\ UNCHANGED <<server, pages, iters, nCalls, lastCall, requests, nGets,
                   got, obj, fields, result, nOps>>

\* deserialize.batch_result or group_result called on the answer
DeserializeEcho ==
    /\ response # NoResponse
    /\ result' = (IF obj.kind = "group_create" THEN group_result(response)
                  ELSE batch_result(response))
    /\ lastOp' = [op |-> "deserialize",
                  arg |-> IF obj.kind = "group_create" THEN "group_result"
                          ELSE "batch_result",
                  out |-> result'.out]
    /\ UNCHANGED <<server, pages, iters, nCalls, lastCall, requests, nGets,
                   got, obj, fields, response, nOps>>

InitRoundTrip ==
    /\ obj \in CreateObjects
    /\ fields = NoFields
    /\ response = NoResponse
    /\ result = NoResult
    /\ nOps = 0
    /\ lastOp = NoOp
    /\ server = <<>>
    /\ pages = "none"
    /\ iters = <<>>
    /\ nCalls = 0
    /\ lastCall = -1
    /\ requests = <<>>
    /\ nGets = 0
    /\ got = <<>>

NextRoundTrip == SerializeCreate \/ ServerEcho \/ DeserializeEcho

SpecRoundTrip == InitRoundTrip /\ [][NextRoundTrip]_vars

----------------------------------------------------------------------------
(* Properties of the create objects *)

\* The elements of a collection as a set
AsSet(c) ==
    IF c.tag = "set" THEN c
    ELSE PySet({c.seq[i] : i \in DOMAIN c.seq})

\* A create object the XMS API accepts: sender, recipients and body given,
\* timestamps with a UTC offset
ValidCreate(o) ==
    /\ o.kind \in {"text_create", "binary_create"}
    /\ o.sender # PyNone
    /\ Truthy(o.recipients)
    /\ o.body # PyNone
    /\ ~IsNaive(o.send_at)
    /\ ~IsNaive(o.expire_at)

\* C18: a valid text or binary create object that is serialized, echoed with
\* an id and a canceled flag and deserialized gives a batch result of the
\* same variant with equal sender, recipients, body, udh, delivery_report,
\* send_at and expire_at.
C18_CreateRoundTrip ==
    (/\ Deserialized("batch_result")
     /\ ValidCreate(obj)
     /\ response.json = With(With(JsonObject(fields.map), "id", Str("X1")),
                             "canceled", Bool(FALSE))) =>
        /\ result.out = "ok"
        /\ obj.kind = "text_create" =>
               result.value.kind = "MtBatchTextSmsResult"
        /\ obj.kind = "binary_create" =>
               /\ result.value.kind = "MtBatchBinarySmsResult"
               /\ result.value.udh = obj.udh
        /\ result.value.sender = obj.sender
        /\ result.value.recipients = AsSet(obj.recipients)
        /\ result.value.body = obj.body
        /\ result.value.delivery_report = obj.delivery_report
        /\ result.value.send_at = obj.send_at
        /\ result.value.expire_at = obj.expire_at

\* A binary batch with body 00 01 02 03, a three-byte udh and both
\* timestamps set came back with the same bytes and the same timestamps.
C18_Witness ==
    /\ Deserialized("batch_result")
    /\ ValidCreate(obj)
    /\ obj.kind = "binary_create"
    /\ obj.body = Bytes(<<0, 1, 2, 3>>)
    /\ obj.send_at # PyNone
    /\ obj.expire_at # PyNone
    /\ fields.map["body"] = Chars(<<"A", "A", "E", "C", "A", "w", "=", "=", "\n">>)
    /\ result.out = "ok"
    /\ result.value.body = obj.body
    /\ result.value.udh = Bytes(<<255, 254, 253>>)
    /\ result.value.send_at = obj.send_at

\* The attribute of the create object a wire key is written from
AttrOf(key) ==
    CASE key = "from" -> "sender"
      [] key = "to" -> "recipients"
      [] OTHER -> key

\* The values a create object holds in a field nobody has set
Defaults == {PyNone, PySet({}), Dict({})}

\* C19: the map of a create object holds, besides 'type', only keys whose
\* object field has a non-default value.
C19_CreateEmitsOnlyNonDefaults ==
    (Serialized /\ obj.kind \in {"text_create", "binary_create", "group_create"}) =>
        \A k \in DOMAIN fields.map \ {"type"} : obj[AttrOf(k)] \notin Defaults

\* The wire keys written from collections, with their attributes
CollectionKeys(kind) ==
    IF kind = "group_create" THEN {"members", "tags"} ELSE {"to", "tags"}

\* C20: a collection the caller supplies as a list is emitted as the wire
\* array with the same elements in the same order.
C20_ListsKeepCallerOrder ==
    (Serialized /\ obj.kind \in {"text_create", "binary_create", "group_create"}) =>
        \A k \in CollectionKeys(obj.kind) :
            (obj[AttrOf(k)].tag = "list" /\ Has(fields.map, k)) =>
                fields.map[k] = obj[AttrOf(k)]

----------------------------------------------------------------------------
(* Properties of an iterator that is stepped past its end or whose pages   *)
(* carry the number of another page                                       *)

\* Iterator 1 makes a next call in this step
NextCallOf1 ==
    /\ iters[1] # <<>>
    /\ iters'[1] # <<>>
    /\ iters'[1][1].nexts = iters[1][1].nexts + 1

\* C28: once a next call has signalled the end of the iteration, every
\* later next call on the same iterator signals the end as well and yields
\* no page.
C28_ExhaustedStaysExhausted ==
    [][(NextCallOf1 /\ iters[1][1].stops > 0) =>
           /\ lastOp'.out = "StopIteration"
           /\ iters'[1][1].yielded = iters[1][1].yielded]_vars

\* C29: every next call invokes the fetcher exactly once, with the number
\* of next calls made before it on that iterator as the index, whatever page
\* number the pages returned so far carry.
C29_EveryNextFetchesItsIndex ==
    [][NextCallOf1 =>
           /\ iters'[1][1].calls = Append(iters[1][1].calls, iters[1][1].nexts)
           /\ nCalls' = nCalls + 1]_vars

----------------------------------------------------------------------------
(* Two iterators over one Pages object, and fetches that raise *)

\* number of fetches that raise in one behaviour
MaxRaises == 1

\* The wire pages of the listing the iterators run over
IteratedPages(i) ==
    [page : {i, i + 1}, page_size : {0, 1}, count : {3}, content : {i}]

\* An iterator after a __next__ whose fetch raised: the fetcher was called
\* with _position, the assignment to _cur_page and the increment of
\* _position were not reached.
FetchRaises_skipping(it) ==
    [it EXCEPT !.calls = Append(@, it.position), !.nexts = @ + 1,
               !.position = @ + 1]

FetchRaises(it) ==
    [it EXCEPT !.calls = Append(@, it.position), !.nexts = @ + 1]

\* Number of next calls of all iterators whose fetch raised
RaisedFetches ==
    LET n(i) == IF iters[i] = <<>> THEN 0
                ELSE iters[i][1].nexts - iters[i][1].position
    IN n(1) + n(2)

\* PagesIterator.__next__ when self._pages.get(self._position) raises: the
\* request was issued, the exception leaves __next__ at line 1167.
NextRaises(i) ==
    /\ iters[i] # <<>>
    /\ iters[i][1].position <= MaxPage
    /\ NeedsFetch(iters[i][1]) = TRUE
    /\ RaisedFetches < MaxRaises
    /\ WorkerEffect(<<iters[i][1].position>>)
    /\ iters' = [iters EXCEPT ![i] = <<FetchRaises(iters[i][1])>>]
    /\ lastOp' = [op |-> "next", arg |-> i, out |-> "raised"]
    /\ UNCHANGED <<server, pages, nGets, got, obj, fields, response, result,
                   nOps>>

\* The state after pages = client.fetch_batches()
InitIterators ==
    /\ server \in [PageIdx -> UNION {IteratedPages(i) : i \in PageIdx}]
    /\ \A i \in PageIdx : server[i] \in IteratedPages(i)
    /\ pages = "batches"
    /\ iters = [i \in IterIds |-> <<>>]
    /\ nCalls = 0
    /\ lastCall = -1
    /\ requests = <<>>
    /\ nGets = 0
    /\ got = <<>>
    /\ response = NoResponse
    /\ result = NoResult
    /\ nOps = 0
    /\ lastOp = [op |-> "fetch_batches", arg |-> -1, out |-> "Pages"]
    /\ obj = NoObj
    /\ fields = NoFields

NextIterators ==
    \E i \in IterIds : Iter(i) \/ NextStep(i) \/ NextRaises(i)

SpecIterators == InitIterators /\ [][NextIterators]_vars

----------------------------------------------------------------------------
(* Properties of concurrent iterators and of fetches that raise *)

\* One __next__ whose fetch returns, on an iterator nobody else steps
AloneStep(it) ==
    LET cur == IF it.cur_page = <<>> \/ it.cur_page[1].page # it.position
               THEN PageFromWire(server[it.position])
               ELSE it.cur_page[1]
    IN [cur_page |-> <<cur>>,
        position |-> it.position + 1,
        calls |-> IF it.cur_page = <<>> \/ it.cur_page[1].page # it.position
                  THEN Append(it.calls, it.position) ELSE it.calls,
        yielded |-> IF cur.size <= 0 THEN it.yielded
                    ELSE Append(it.yielded, cur),
        stops |-> IF cur.size <= 0 THEN it.stops + 1 ELSE it.stops,
        nexts |-> it.nexts + 1]

RECURSIVE RunAlone(_)
\* The iterator after n next calls when it is the only one
RunAlone(n) == IF n = 0 THEN NewIterator ELSE AloneStep(RunAlone(n - 1))

C30_FailedFetchKeepsPosition ==
    [][\A i \in IterIds :
           (iters[i] # <<>> /\ iters'[i] # <<>>
            /\ iters'[i][1].nexts = iters[i][1].nexts + 1) =>
               LET it == iters[i][1]
                   after == iters'[i][1]
               IN /\ (lastOp'.out = "raised") =>
                         /\ after.position = it.position
                         /\ after.cur_page = it.cur_page
                         /\ after.yielded = it.yielded
                         /\ after.stops = it.stops
                  /\ (after.calls # it.calls) =>
                         after.calls = Append(it.calls, it.position)]_vars

\* The fetch of index 1 raised and the following next call fetched index 1
\* again and returned its page.
C30_Witness ==
    /\ iters[1] # <<>>
    /\ iters[1][1].calls = <<0, 1, 1>>
    /\ iters[1][1].nexts = 3
    /\ iters[1][1].position = 2
    /\ Len(iters[1][1].yielded) = 2
    /\ lastOp = [op |-> "next", arg |-> 1, out |-> "page"]

----------------------------------------------------------------------------
(* Properties of the order of the emitted collections *)

\* The elements of a collection in ascending order
Ascending(c) == PyList(SetToSortedSeq(AsSet(c).elems))

----------------------------------------------------------------------------
(* Properties of the fields a batch result carries *)

\* C23: a batch result read from a wire map that carries a 'tags' array
\* holds that set of tags, as it holds the recipients and the sender.
C23_ResultCarriesTags ==
    (/\ Deserialized("batch_result")
     /\ result.out = "ok"
     /\ response.json.tag = "dict"
     /\ Has(response.json.map, "tags")) =>
        /\ result.value.sender = response.json.map["from"]
        /\ result.value.recipients = AsSet(response.json.map["to"])
        /\ "tags" \in DOMAIN result.value
        /\ result.value["tags"] = AsSet(response.json.map["tags"])

----------------------------------------------------------------------------
(* Properties of the mobile-originated messages read *)

\* C24: every MO message that mo_sms returns, and every MO message on a
\* page that inbounds_page returns, has received_at set; a document without
\* 'received_at' never gives an object.
C24_ReceivedAtIsRequired ==
    /\ (Deserialized("mo_sms") /\ result.out = "ok") =>
           /\ result.value.received_at # PyNone
           /\ Has(response.json.map, "received_at")
    /\ (Deserialized("inbounds_page") /\ result.out = "ok") =>
           \A k \in DOMAIN result.value.content.seq :
               result.value.content.seq[k].received_at # PyNone

----------------------------------------------------------------------------
(* Properties of the group auto-update on the wire *)

\* The positions of a word pair that hold a word, with their words
Populated(pair) ==
    [k \in {n \in {"first_word", "second_word"} :
                (IF n = "first_word" THEN pair[1] ELSE pair[2]) # PyNone} |->
        IF k = "first_word" THEN pair[1] ELSE pair[2]]

\* C25: the map of a group auto-update always holds 'to'; it holds 'add'
\* (resp. 'remove') exactly when a position of the add (resp. remove) pair
\* holds a word, with exactly those positions; and reading the map back
\* gives an auto-update with the same recipient and the same word pairs.
C25_AutoUpdateRoundTrip ==
    /\ (Serialized /\ obj.kind = "group_create" /\ obj.auto_update # PyNone) =>
           LET m == fields.map["auto_update"].map
               add == Populated(obj.auto_update.add_word_pair)
               rem == Populated(obj.auto_update.remove_word_pair)
           IN /\ m["to"] = obj.auto_update.recipient
              /\ Has(m, "add") <=> (DOMAIN add # {})
              /\ Has(m, "add") => m["add"] = JsonObject(add)
              /\ Has(m, "remove") <=> (DOMAIN rem # {})
              /\ Has(m, "remove") => m["remove"] = JsonObject(rem)
    /\ (Deserialized("group_result") /\ obj.auto_update # PyNone) =>
           /\ result.out = "ok"
           /\ result.value.auto_update = obj.auto_update

\* The rule (None, JOIN) / (LEAVE, None) went over the wire with one
\* position in each sub-object and came back unchanged.
C25_Witness ==
    /\ Deserialized("group_result")
    /\ obj.auto_update = GroupAutoUpdate(Str("12345"), PyNone, Str("JOIN"),
                                         Str("LEAVE"), PyNone)
    /\ DOMAIN response.json.map["auto_update"].map["add"].map = {"second_word"}
    /\ DOMAIN response.json.map["auto_update"].map["remove"].map = {"first_word"}
    /\ result.out = "ok"
    /\ result.value.auto_update = obj.auto_update

----------------------------------------------------------------------------
(* Properties of the serializers as functions of their argument *)

----------------------------------------------------------------------------
(* Properties of the arrays read from the wire *)

\* The class an element with the given 'type' is read into
KindOf(doc) ==
    CASE doc.map["type"] = Str("mt_text") -> "MtBatchTextSmsResult"
      [] doc.map["type"] = Str("mt_binary") -> "MtBatchBinarySmsResult"
      [] doc.map["type"] = Str("mo_text") -> "MoTextSms"
      [] doc.map["type"] = Str("mo_binary") -> "MoBinarySms"
      [] OTHER -> "none"

\* The entry point returned a value
ReturnedFrom(deser) == Deserialized(deser) /\ result.out = "ok"

\* C27: page content, delivery-report statuses and dry-run per-recipient
\* details are lists as long as the wire array, in wire order, each page
\* element read according to its own type; recipients, tags and group
\* members are the set of the elements of the wire array.
C27_ListsKeepOrderSetsCollapse ==
    /\ ReturnedFrom("batches_page") =>
           LET w == response.json.map["batches"].seq
               c == result.value.content.seq
           IN /\ Len(c) = Len(w)
              /\ \A k \in DOMAIN w : /\ c[k].kind = KindOf(w[k])
                                     /\ c[k].batch_id = w[k].map["id"]
    /\ ReturnedFrom("inbounds_page") =>
           LET w == response.json.map["inbounds"].seq
               c == result.value.content.seq
           IN /\ Len(c) = Len(w)
              /\ \A k \in DOMAIN w : /\ c[k].kind = KindOf(w[k])
                                     /\ c[k].message_id = w[k].map["id"]
    /\ ReturnedFrom("groups_page") =>
           LET w == response.json.map["groups"].seq
               c == result.value.content.seq
           IN /\ Len(c) = Len(w)
              /\ \A k \in DOMAIN w : c[k].group_id = w[k].map["id"]
    /\ ReturnedFrom("batch_delivery_report") =>
           LET w == response.json.map["statuses"].seq
               c == result.value.statuses.seq
           IN /\ Len(c) = Len(w)
              /\ \A k \in DOMAIN w :
                     /\ c[k].status = w[k].map["status"]
                     /\ c[k].code = w[k].map["code"]
                     /\ Has(w[k].map, "recipients") =>
                            c[k].recipients = AsSet(w[k].map["recipients"])
    /\ (ReturnedFrom("batch_dry_run_result")
        /\ Has(response.json.map, "per_recipient")) =>
           LET w == response.json.map["per_recipient"].seq
               c == result.value.per_recipient.seq
           IN /\ Len(c) = Len(w)
              /\ \A k \in DOMAIN w : c[k].recipient = w[k].map["recipient"]
    /\ ReturnedFrom("batch_result") =>
           result.value.recipients = AsSet(response.json.map["to"])
    /\ ReturnedFrom("tags") =>
           result.value = AsSet(response.json.map["tags"])
    /\ ReturnedFrom("group_members") => result.value = AsSet(response.json)

\* A delivery report with the statuses Failed, Delivered was read in that
\* order, and the recipients 2, 1, 2 of the first became the set {1, 2}.
C27_Witness ==
    /\ ReturnedFrom("batch_delivery_report")
    /\ response.json.map["statuses"].seq[1].map["recipients"]
           = PyList(<<2, 1, 2>>)
    /\ Len(result.value.statuses.seq) = 2
    /\ result.value.statuses.seq[1].status = Str("Failed")
    /\ result.value.statuses.seq[2].status = Str("Delivered")
    /\ result.value.statuses.seq[1].recipients = PySet({1, 2})

====
